---- MODULE Spec2Model ----
(***************************************************************************)
(* A model of the loxer tree-walking Lox interpreter: the scanner          *)
(* (src/src/scanner.rs), the token kinds (src/src/token.rs), the resolver  *)
(* (src/src/resolver.rs) and the interpreter (src/src/interpreter.rs).     *)
(*                                                                         *)
(* A character is a one-character string, a source text a sequence of      *)
(* characters.  Every component has its own specification; the variables   *)
(* of the other components stay at their idle values.                      *)
(***************************************************************************)
EXTENDS Integers, Sequences, FiniteSets, TLC

VARIABLES
    input,        \* the text handed to Scanner::new
    source,       \* Scanner.source: the characters not yet consumed
    line,         \* Scanner.line
    tokens,       \* Scanner.tokens
    errors,       \* Scanner.errors
    scan_pc,      \* position in scan_tokens: "scanning" | "done" | "idle"
    scan_result,  \* what scan_tokens returned
    tt_a,         \* a TokenType value
    tt_b,         \* another TokenType value
    tt_eq,        \* tt_a == tt_b, once compared: "true" | "false" | "none"
    tt_hash,      \* what hashing tt_a and tt_b fed to the hasher, once hashed
    program,      \* the statements handed to resolve_stmts and to interpret
    scopes,       \* Resolver.scopes, the innermost scope last
    current_function,  \* Resolver.current_function
    resolve_result,    \* what resolve_stmts returned
    resolve_log,  \* history: one entry per call of resolve_local
    resolve_trace,  \* history: one entry per name declared, name read and return
    locals,       \* Interpreter.locals
    environment,  \* Interpreter.environment: the current environment
    heap,         \* the objects behind Rc: environments, functions, classes
    interp_result,  \* what interpret returned
    block_log,    \* history: one entry per return of execute_block
    parse_input,  \* the tokens handed to Parser::new
    parse_pos,    \* Parser.tokens: the index of the token peek() gives
    parse_statements,  \* parse's statements
    parse_errors, \* parse's errors
    parse_result, \* what parse returned
    parse_log     \* history: one entry per turn of parse's loop

scanVars == <<input, source, line, tokens, errors, scan_pc, scan_result>>

tokenVars == <<tt_a, tt_b, tt_eq, tt_hash>>

resolverVars == <<scopes, current_function, resolve_result, resolve_log, resolve_trace>>

interpVars == <<locals, environment, heap, interp_result, block_log>>

runVars == <<program, resolverVars, interpVars>>

parseVars ==
    <<parse_input, parse_pos, parse_statements, parse_errors, parse_result, parse_log>>

vars == <<scanVars, tokenVars, runVars, parseVars>>

(***************************************************************************)
(* Bounds of the model.                                                    *)
(***************************************************************************)
MaxSrcLen == 4
MaxCommentLen == 6
MaxWords == 3
MaxNumberLen == 5

(***************************************************************************)
(* Characters.                                                             *)
(***************************************************************************)
NL == "\n"
QUOTE == "\""

Digits == {"0", "1", "2", "3", "4", "5", "6", "7", "8", "9"}

Letters ==
    {"a", "b", "c", "d", "e", "f", "g", "h", "i", "j", "k", "l", "m",
     "n", "o", "p", "q", "r", "s", "t", "u", "v", "w", "x", "y", "z",
     "A", "B", "C", "D", "E", "F", "G", "H", "I", "J", "K", "L", "M",
     "N", "O", "P", "Q", "R", "S", "T", "U", "V", "W", "X", "Y", "Z"}

is_ascii_digit(c) == c \in Digits

is_ascii_alphabetic(c) == c \in Letters

is_ascii_alphanumeric(c) == c \in Letters \cup Digits

DigitValue(c) ==
    CASE c = "0" -> 0 [] c = "1" -> 1 [] c = "2" -> 2 [] c = "3" -> 3
      [] c = "4" -> 4 [] c = "5" -> 5 [] c = "6" -> 6 [] c = "7" -> 7
      [] c = "8" -> 8 [] c = "9" -> 9

(***************************************************************************)
(* Sequence helpers.                                                       *)
(***************************************************************************)
Drop(s, n) == SubSeq(s, n + 1, Len(s))

Take(s, n) == SubSeq(s, 1, n)

\* The number of leading elements of s that satisfy membership in S:
\* what repeated next_if consumes.
PrefixLen(s, S) ==
    CHOOSE n \in 0..Len(s) :
        /\ \A i \in 1..n : s[i] \in S
        /\ (n = Len(s) \/ s[n + 1] \notin S)

\* The index of the first c in s, or 0.
IndexOf(s, c) ==
    IF \E i \in 1..Len(s) : s[i] = c
    THEN CHOOSE i \in 1..Len(s) : s[i] = c /\ \A j \in 1..(i - 1) : s[j] # c
    ELSE 0

Count(s, c) == Cardinality({i \in 1..Len(s) : s[i] = c})

(***************************************************************************)
(* token.rs: TokenType and Token.  A token kind is a tag with its payload: *)
(* text for Identifier and String, num for Number; the payload fields of   *)
(* the other kinds are empty.                                              *)
(***************************************************************************)
NoNum == [int |-> 0, frac |-> <<>>]

TokenType(tag) == [tag |-> tag, text |-> <<>>, num |-> NoNum]

Identifier(text) == [tag |-> "Identifier", text |-> text, num |-> NoNum]

String(text) == [tag |-> "String", text |-> text, num |-> NoNum]

Number(value) == [tag |-> "Number", text |-> <<>>, num |-> value]

Token(token_type, lexeme, ln) ==
    [token_type |-> token_type, lexeme |-> lexeme, line |-> ln]

ParseErrorCause(ln, message) == [line |-> ln, message |-> message]

\* The variants of TokenType in declaration order.
TokenTags ==
    << "LeftParen", "RightParen", "LeftBrace", "RightBrace", "Comma", "Colon",
       "Dot", "Minus", "Plus", "QuestionMark", "Semicolon", "Slash", "Star",
       "Bang", "BangEqual", "Equal", "EqualEqual", "Greater", "GreaterEqual",
       "Less", "LessEqual", "Identifier", "String", "Number", "And", "Class",
       "Else", "False", "Fun", "For", "If", "Nil", "Or", "Print", "Return",
       "Super", "This", "True", "Var", "While", "Eof" >>

\* core::mem::discriminant: the index of the value's variant.
discriminant(a) == CHOOSE i \in 1..Len(TokenTags) : TokenTags[i] = a.tag

\* The derived PartialEq of TokenType: the same variant, and for a variant
\* with a payload the same payload.
token_type_eq(a, b) ==
    /\ a.tag = b.tag
    /\ CASE a.tag = "Identifier" -> a.text = b.text
         [] a.tag = "String" -> a.text = b.text
         [] a.tag = "Number" -> a.num = b.num
         [] OTHER -> TRUE

\* impl Hash for TokenType: what is fed to the hasher.
\* A hash that also feeds the payload, as a derived Hash would.
token_type_hash_payload(a) == <<discriminant(a), a.text, a.num>>

token_type_hash(a) == <<discriminant(a)>>

TokenIdle ==
    /\ tt_a = TokenType("Eof")
    /\ tt_b = TokenType("Eof")
    /\ tt_eq = "none"
    /\ tt_hash = <<>>

\* No program has been handed to the resolver or the interpreter.
RunIdle ==
    /\ program = <<>>
    /\ scopes = <<>>
    /\ current_function = "None"
    /\ resolve_result = [kind |-> "None", message |-> ""]
    /\ resolve_log = <<>>
    /\ resolve_trace = <<>>
    /\ locals = {}
    /\ environment = 0
    /\ heap = <<>>
    /\ interp_result = [kind |-> "None", message |-> ""]
    /\ block_log = <<>>

\* No token list has been handed to the parser.
ParseIdle ==
    /\ parse_input = <<>>
    /\ parse_pos = 1
    /\ parse_statements = <<>>
    /\ parse_errors = <<>>
    /\ parse_result = [kind |-> "Idle", statements |-> <<>>, causes |-> <<>>]
    /\ parse_log = <<>>

\* Two token kinds are compared and hashed.
CompareTokenTypes ==
    /\ tt_eq = "none"
    /\ tt_eq' = IF token_type_eq(tt_a, tt_b) THEN "true" ELSE "false"
    /\ tt_hash' = <<token_type_hash(tt_a), token_type_hash(tt_b)>>
    /\ UNCHANGED <<tt_a, tt_b, scanVars, runVars, parseVars>>

TokenTypeSamples ==
    { Identifier(<<"a">>), Identifier(<<"b">>), String(<<"a">>), String(<<"x">>),
      String(<<"y">>), Number([int |-> 1, frac |-> <<>>]),
      Number([int |-> 2, frac |-> <<>>]), Number([int |-> 1, frac |-> <<"5">>]),
      TokenType("LeftParen"), TokenType("Dot"), TokenType("True"), TokenType("Eof") }

(***************************************************************************)
(* scanner.rs.  A scanner state s is [source, line, tokens, errors].       *)
(***************************************************************************)
Kw(text, tag) == <<text, tag>>

\* scan_token's keyword table.
keywords ==
    { Kw(<<"a", "n", "d">>, "And"),
      Kw(<<"c", "l", "a", "s", "s">>, "Class"),
      Kw(<<"e", "l", "s", "e">>, "Else"),
      Kw(<<"f", "a", "l", "s", "e">>, "False"),
      Kw(<<"f", "o", "r">>, "For"),
      Kw(<<"f", "u", "n">>, "Fun"),
      Kw(<<"i", "f">>, "If"),
      Kw(<<"n", "i", "l">>, "Nil"),
      Kw(<<"o", "r">>, "Or"),
      Kw(<<"p", "r", "i", "n", "t">>, "Print"),
      Kw(<<"r", "e", "t", "u", "r", "n">>, "Return"),
      Kw(<<"s", "u", "p", "e", "r">>, "Super"),
      Kw(<<"t", "h", "i", "s">>, "This"),
      Kw(<<"t", "r", "u", "e">>, "True"),
      Kw(<<"v", "a", "r">>, "Var"),
      Kw(<<"w", "h", "i", "l", "e">>, "While") }

\* keywords.get(lexeme): the tag of the entry whose key is lexeme, or "None".
keywords_get(lexeme) ==
    IF \E k \in keywords : k[1] = lexeme
    THEN (CHOOSE k \in keywords : k[1] = lexeme)[2]
    ELSE "None"

push_token(s, token_type, lexeme) ==
    [s EXCEPT !.tokens = Append(@, Token(token_type, lexeme, s.line))]

push_error(s, message) ==
    [s EXCEPT !.errors = Append(@, ParseErrorCause(s.line, message))]

\* The single-character tokens of scan_token.
SingleCharTag(ch) ==
    CASE ch = "(" -> "LeftParen"
      [] ch = ")" -> "RightParen"
      [] ch = "{" -> "LeftBrace"
      [] ch = "}" -> "RightBrace"
      [] ch = "," -> "Comma"
      [] ch = "." -> "Dot"
      [] ch = "-" -> "Minus"
      [] ch = "+" -> "Plus"
      [] ch = ":" -> "Colon"
      [] ch = ";" -> "Semicolon"
      [] ch = "*" -> "Star"
      [] ch = "?" -> "QuestionMark"
      [] OTHER -> "None"

\* The tags of '!', '=', '<', '>' alone and followed by '='.
OneOrTwoTag(ch, two) ==
    CASE ch = "!" -> IF two THEN "BangEqual" ELSE "Bang"
      [] ch = "=" -> IF two THEN "EqualEqual" ELSE "Equal"
      [] ch = "<" -> IF two THEN "LessEqual" ELSE "Less"
      [] ch = ">" -> IF two THEN "GreaterEqual" ELSE "Greater"
      [] OTHER -> "None"

\* str::parse::<f64> of digits with an optional '.' and fraction digits: the
\* integer part as a number, the fraction digits without trailing zeros
\* ("1", "1." and "1.0" are the same f64; so are "1.5" and "1.50").
RECURSIVE DigitsValue(_)
DigitsValue(ds) ==
    IF ds = <<>> THEN 0
    ELSE 10 * DigitsValue(Take(ds, Len(ds) - 1)) + DigitValue(ds[Len(ds)])

RECURSIVE StripZeros(_)
StripZeros(ds) ==
    IF ds # <<>> /\ ds[Len(ds)] = "0" THEN StripZeros(Take(ds, Len(ds) - 1))
    ELSE ds

parse_f64(str_num) ==
    LET dot == IndexOf(str_num, ".")
        ip == IF dot = 0 THEN str_num ELSE Take(str_num, dot - 1)
        fp == IF dot = 0 THEN <<>> ELSE Drop(str_num, dot)
    IN  [int |-> DigitsValue(ip), frac |-> StripZeros(fp)]

\* push_num: the token's lexeme is char_num as collected.
push_num(s, char_num) ==
    push_token(s, Number(parse_f64(char_num)), char_num)

\* scan_block_comment, entered after "/*": [ok, source, line] when it
\* returns.  A '/' or a '*' consumes the character after it, whatever it is.
RECURSIVE scan_block_comment(_, _)
scan_block_comment(src, ln) ==
    IF src = <<>> THEN [ok |-> FALSE, source |-> src, line |-> ln]
    ELSE
        LET next_ch == Head(src)
            rest == Tail(src)
        IN  IF next_ch = NL THEN scan_block_comment(rest, ln + 1)
            ELSE IF next_ch = "/" THEN
                IF rest # <<>> THEN
                    IF Head(rest) = "*" THEN
                        LET inner == scan_block_comment(Tail(rest), ln)
                        IN  IF inner.ok
                            THEN scan_block_comment(inner.source, inner.line)
                            ELSE inner
                    ELSE scan_block_comment(Tail(rest), ln)
                ELSE scan_block_comment(rest, ln)
            ELSE IF next_ch = "*" THEN
                IF rest # <<>> THEN
                    IF Head(rest) = "/"
                    THEN [ok |-> TRUE, source |-> Tail(rest), line |-> ln]
                    ELSE scan_block_comment(Tail(rest), ln)
                ELSE scan_block_comment(rest, ln)
            ELSE scan_block_comment(rest, ln)

\* The '/' arm of scan_token: a line comment, a block comment or Slash.
scan_slash(s) ==
    IF s.source # <<>> /\ Head(s.source) = "/" THEN
        LET body == Tail(s.source)
            nl == IndexOf(body, NL)
        IN  IF nl = 0 THEN [s EXCEPT !.source = <<>>]
            ELSE [s EXCEPT !.source = Drop(body, nl), !.line = @ + 1]
    ELSE IF s.source # <<>> /\ Head(s.source) = "*" THEN
        LET c == scan_block_comment(Tail(s.source), s.line)
            after == [s EXCEPT !.source = c.source, !.line = c.line]
        IN  IF c.ok THEN after
            ELSE push_error(after, "Unterminated block comment.")
    ELSE push_token(s, TokenType("Slash"), <<"/">>)

\* The '"' arm of scan_token: the lexeme and the payload are the characters
\* between the quotes.
scan_string(s) ==
    LET q == IndexOf(s.source, QUOTE)
    IN  IF q # 0 THEN
            LET lexeme == Take(s.source, q - 1)
                after == [s EXCEPT !.source = Drop(s.source, q),
                                   !.line = @ + Count(lexeme, NL)]
            IN  push_token(after, String(lexeme), lexeme)
        ELSE
            push_error([s EXCEPT !.source = <<>>,
                                 !.line = @ + Count(s.source, NL)],
                       "Unterminated string.")

\* The digit arm without the separate Dot token for a trailing '.'.
scan_number_no_dot(s, ch) ==
    LET n == PrefixLen(s.source, Digits)
        char_num == <<ch>> \o Take(s.source, n)
        rest == Drop(s.source, n)
    IN  IF rest # <<>> /\ Head(rest) = "." THEN
            LET m == PrefixLen(Tail(rest), Digits)
            IN  push_num([s EXCEPT !.source = Drop(Tail(rest), m)],
                         Append(char_num, ".") \o Take(Tail(rest), m))
        ELSE push_num([s EXCEPT !.source = rest], char_num)

\* The digit arm of scan_token.
scan_number(s, ch) ==
    LET n == PrefixLen(s.source, Digits)
        char_num == <<ch>> \o Take(s.source, n)
        rest == Drop(s.source, n)
    IN  IF rest # <<>> /\ Head(rest) = "." THEN
            LET with_dot == Append(char_num, ".")
                rest2 == Tail(rest)
            IN  IF rest2 # <<>> /\ is_ascii_digit(Head(rest2)) THEN
                    LET m == PrefixLen(rest2, Digits)
                    IN  push_num([s EXCEPT !.source = Drop(rest2, m)],
                                 with_dot \o Take(rest2, m))
                ELSE
                    push_token(push_num([s EXCEPT !.source = rest2], with_dot),
                               TokenType("Dot"), <<".">>)
        ELSE push_num([s EXCEPT !.source = rest], char_num)

\* The identifier arm with a table lookup that ignores what follows the
\* keyword: the longest keyword the run starts with decides the kind.
scan_identifier_prefix(s, ch) ==
    LET n == PrefixLen(s.source, Letters \cup Digits \cup {"_"})
        lexeme == <<ch>> \o Take(s.source, n)
        after == [s EXCEPT !.source = Drop(s.source, n)]
        hits == {k \in keywords : Len(k[1]) <= Len(lexeme) /\ Take(lexeme, Len(k[1])) = k[1]}
    IN  IF hits # {}
        THEN push_token(after,
                        TokenType((CHOOSE k \in hits : \A h \in hits : Len(h[1]) <= Len(k[1]))[2]),
                        lexeme)
        ELSE push_token(after, Identifier(lexeme), lexeme)

\* The identifier arm of scan_token.
scan_identifier(s, ch) ==
    LET n == PrefixLen(s.source, Letters \cup Digits \cup {"_"})
        lexeme == <<ch>> \o Take(s.source, n)
        after == [s EXCEPT !.source = Drop(s.source, n)]
        t_type == keywords_get(lexeme)
    IN  IF t_type # "None"
        THEN push_token(after, TokenType(t_type), lexeme)
        ELSE push_token(after, Identifier(lexeme), lexeme)

\* scan_token(ch), ch already taken from s.source.
scan_token(s, ch) ==
    IF SingleCharTag(ch) # "None" THEN
        push_token(s, TokenType(SingleCharTag(ch)), <<ch>>)
    ELSE IF OneOrTwoTag(ch, FALSE) # "None" THEN
        IF s.source # <<>> /\ Head(s.source) = "="
        THEN push_token([s EXCEPT !.source = Tail(@)],
                        TokenType(OneOrTwoTag(ch, TRUE)), <<ch, "=">>)
        ELSE push_token(s, TokenType(OneOrTwoTag(ch, FALSE)), <<ch>>)
    ELSE IF ch = "/" THEN scan_slash(s)
    ELSE IF ch \in {" ", "\r", "\t"} THEN s
    ELSE IF ch = NL THEN [s EXCEPT !.line = @ + 1]
    ELSE IF ch = QUOTE THEN scan_string(s)
    ELSE IF is_ascii_digit(ch) THEN scan_number(s, ch)
    ELSE IF is_ascii_alphabetic(ch) \/ ch = "_" THEN scan_identifier(s, ch)
    ELSE push_error(s, "Unexpected character.")

Scanner == [source |-> source, line |-> line, tokens |-> tokens, errors |-> errors]

\* Scanner::new(source).
ScannerNew(text) ==
    /\ input = text
    /\ source = text
    /\ line = 1
    /\ tokens = <<>>
    /\ errors = <<>>
    /\ scan_pc = "scanning"
    /\ scan_result = [kind |-> "None", tokens |-> <<>>, causes |-> <<>>]
    /\ TokenIdle
    /\ RunIdle
    /\ ParseIdle

ScanIdle ==
    /\ input = <<>>
    /\ source = <<>>
    /\ line = 1
    /\ tokens = <<>>
    /\ errors = <<>>
    /\ scan_pc = "idle"
    /\ scan_result = [kind |-> "None", tokens |-> <<>>, causes |-> <<>>]

\* One turn of scan_tokens' loop: source.next() and scan_token(ch).
ScanTokensStep ==
    /\ scan_pc = "scanning"
    /\ source # <<>>
    /\ LET s == scan_token([Scanner EXCEPT !.source = Tail(source)], Head(source))
       IN  /\ source' = s.source
           /\ line' = s.line
           /\ tokens' = s.tokens
           /\ errors' = s.errors
    /\ UNCHANGED <<input, scan_pc, scan_result, tokenVars, runVars, parseVars>>

\* A scan_tokens that hands back the tokens whatever was recorded.
ScanOutcomeAlwaysOk(toks, errs) == [kind |-> "Ok", tokens |-> toks, causes |-> <<>>]

\* What scan_tokens returns for the token list and the errors it ends with.
ScanOutcome(toks, errs) ==
    IF errs = <<>>
    THEN [kind |-> "Ok", tokens |-> toks, causes |-> <<>>]
    ELSE [kind |-> "ParseError", tokens |-> <<>>, causes |-> errs]

\* The end of scan_tokens: source.next() is None; push Eof and return.
ScanTokensReturn ==
    /\ scan_pc = "scanning"
    /\ source = <<>>
    /\ tokens' = Append(tokens, Token(TokenType("Eof"), <<>>, line))
    /\ scan_result' = ScanOutcome(tokens', errors)
    /\ errors' = IF errors = <<>> THEN errors ELSE <<>>
    /\ scan_pc' = "done"
    /\ UNCHANGED <<input, source, line, tokenVars, runVars, parseVars>>

NextScan == ScanTokensStep \/ ScanTokensReturn

\* All texts of at most n characters over the alphabet A.
Texts(A, n) == UNION {[1..k -> A] : k \in 0..n}

ScanAlphabet == {"a", "1", ".", QUOTE, "/", "*", NL, "@"}

InitScan == \E text \in Texts(ScanAlphabet, MaxSrcLen) : ScannerNew(text)

SpecScan == InitScan /\ [][NextScan]_vars

\* Texts for the block-comment cases.
CommentAlphabet == {"/", "*", NL, "a"}

InitScanComment == \E text \in Texts(CommentAlphabet, MaxCommentLen) : ScannerNew(text)

SpecScanComment == InitScanComment /\ [][NextScan]_vars

\* Texts for the number cases.
NumberAlphabet == {"0", "1", ".", "d", " "}

InitScanNumber == \E text \in Texts(NumberAlphabet, MaxNumberLen) : ScannerNew(text)

SpecScanNumber == InitScanNumber /\ [][NextScan]_vars

\* Texts for the identifier and keyword cases: at most MaxWords pieces, each
\* a keyword, another word, a digit, a blank, a newline or "//".
KeywordTexts == {k[1] : k \in keywords}

WordPieces ==
    KeywordTexts \cup
    { <<"T", "r", "u", "e">>, <<"F", "a", "l", "s", "e">>, <<"x">>, <<"_">>,
      <<"1">>, <<" ">>, <<NL>>, <<"/", "/">> }

RECURSIVE Phrases(_)
Phrases(n) ==
    IF n = 0 THEN {<<>>}
    ELSE Phrases(n - 1) \cup {w \o p : w \in Phrases(n - 1), p \in WordPieces}

InitScanWords == \E text \in Phrases(MaxWords) : ScannerNew(text)

SpecScanWords == InitScanWords /\ [][NextScan]_vars

(***************************************************************************)
(* Definitions the scanner properties are stated with.                     *)
(***************************************************************************)
TypesOf(toks) == [i \in 1..Len(toks) |-> toks[i].token_type]

TagsOf(toks) == [i \in 1..Len(toks) |-> toks[i].token_type.tag]

Consumed == Take(input, Len(input) - Len(source))

IsPrefix(a, b) == Len(a) <= Len(b) /\ Take(b, Len(a)) = a

WordChars == Letters \cup Digits \cup {"_"}

StartsWith(s, p) == IsPrefix(p, s)

(***************************************************************************)
(* Scanner properties.                                                     *)
(***************************************************************************)
\* Each step of the loop keeps the causes recorded so far and adds at most
\* one; the loop is left only when the whole source has been consumed.
C4_Accumulates ==
    (scan_pc = "scanning" /\ scan_pc' = "scanning") =>
        /\ IsPrefix(errors, errors')
        /\ Len(errors') <= Len(errors) + 1
        /\ IsPrefix(tokens, tokens')

\* What the return step hands back for the causes recorded until then.
C4_Returns ==
    (scan_pc = "scanning" /\ scan_pc' = "done") =>
        /\ source = <<>>
        /\ (scan_result'.kind = "ParseError") <=> (errors # <<>>)
        /\ scan_result'.kind = "ParseError" => scan_result'.causes = errors
        /\ scan_result'.kind \in {"Ok", "ParseError"}
        /\ scan_result'.kind = "Ok" =>
              /\ scan_result'.tokens = Append(tokens, Token(TokenType("Eof"), <<>>, line))
              /\ \A i \in 1..Len(tokens) : tokens[i].token_type.tag # "Eof"

\* In a text without quotes and slashes the lexical errors are exactly the
\* unexpected characters, one cause each, with non-decreasing lines.
C4_CausesInOrder ==
    scan_pc = "done" =>
        /\ ((Count(input, QUOTE) = 0 /\ Count(input, "/") = 0) =>
              Len(scan_result.causes) = Count(input, "@"))
        /\ \A i \in 1..Len(scan_result.causes) : \A j \in 1..Len(scan_result.causes) :
              i < j => scan_result.causes[i].line <= scan_result.causes[j].line

\* C4: scan_tokens returns a ParseError iff at least one lexical error
\* occurred during the whole scan (scanning goes on after an error, each
\* error adds one cause, in source order); otherwise it returns the tokens
\* in source order with exactly one Eof, the last element.
C4_ScanTokensResult ==
    /\ [][C4_Accumulates /\ C4_Returns]_vars
    /\ [](C4_CausesInOrder)

\* C4 witness: a scan that went on after its first error and returned a
\* ParseError with two causes.
C4_Witness ==
    /\ scan_pc = "done"
    /\ scan_result.kind = "ParseError"
    /\ Len(scan_result.causes) = 2
    /\ Len(tokens) >= 2

\* C5: the line counter is 1 plus the number of '\n' characters consumed so
\* far, wherever they occur, so every token carries the line of its place.
C5_LineCountsNewlines ==
    scan_pc \in {"scanning", "done"} =>
        /\ line = 1 + Count(Consumed, NL)
        /\ (scan_pc = "done" => tokens[Len(tokens)].line = 1 + Count(input, NL))

\* The block comment the claim describes, entered after "/*" at depth d:
\* every "/*" adds one to the depth and every "*/" takes one off, whatever
\* stands next to them; [closed, rest].
RECURSIVE NestedComment(_, _)
NestedComment(src, d) ==
    IF d = 0 THEN [closed |-> TRUE, rest |-> src]
    ELSE IF src = <<>> THEN [closed |-> FALSE, rest |-> src]
    ELSE IF StartsWith(src, <<"/", "*">>) THEN NestedComment(Drop(src, 2), d + 1)
    ELSE IF StartsWith(src, <<"*", "/">>) THEN NestedComment(Drop(src, 2), d - 1)
    ELSE NestedComment(Tail(src), d)

\* C6: block comments nest by depth, whatever characters stand next to the
\* "/*" and "*/": the comment ends at the "*/" that brings the depth to
\* zero, adds no token, and "Unterminated block comment." is recorded iff
\* the source ends before that "*/".
C6_BlockCommentStep ==
    (scan_pc = "scanning" /\ scan_pc' = "scanning" /\ StartsWith(source, <<"/", "*">>)) =>
        LET c == NestedComment(Drop(source, 2), 1)
        IN  /\ tokens' = tokens
            /\ (errors' # errors) <=> ~c.closed
            /\ c.closed => source' = c.rest

C6_BlockCommentsNest == [][C6_BlockCommentStep]_vars

\* The value of a number written as the digits ip, a '.', and the digits fp.
DecimalValue(ip, fp) == [int |-> DigitsValue(ip), frac |-> StripZeros(fp)]

\* The step that starts at a digit: the digit run ds, then what follows it.
C7_NumberStep ==
    (scan_pc = "scanning" /\ scan_pc' = "scanning" /\ source # <<>> /\ Head(source) \in Digits) =>
        LET n == CHOOSE k \in 1..Len(source) :
                    /\ \A i \in 1..k : source[i] \in Digits
                    /\ (k = Len(source) \/ source[k + 1] \notin Digits)
            ds == Take(source, n)
            after == Drop(source, n)
            m == IF Len(after) >= 2 /\ after[1] = "." /\ after[2] \in Digits
                 THEN CHOOSE k \in 1..(Len(after) - 1) :
                        /\ \A i \in 2..(k + 1) : after[i] \in Digits
                        /\ (k + 1 = Len(after) \/ after[k + 2] \notin Digits)
                 ELSE 0
        IN  IF after # <<>> /\ after[1] = "." /\ m = 0 THEN
                \* digits and a '.' that no digit follows
                /\ TypesOf(tokens') =
                      TypesOf(tokens) \o <<Number(DecimalValue(ds, <<>>)), TokenType("Dot")>>
                /\ source' = Drop(after, 1)
            ELSE IF m > 0 THEN
                \* digits, '.', digits
                /\ TypesOf(tokens') =
                      Append(TypesOf(tokens), Number(DecimalValue(ds, SubSeq(after, 2, m + 1))))
                /\ source' = Drop(after, m + 1)
            ELSE
                /\ TypesOf(tokens') = Append(TypesOf(tokens), Number(DecimalValue(ds, <<>>)))
                /\ source' = after

\* A text made of digits directly followed by letters, and nothing else.
C7_DigitsThenLetters ==
    (scan_pc = "done" /\ input # <<>> /\ input[1] \in Digits /\ input[Len(input)] \in Letters
        /\ (\A i \in 1..Len(input) : \A j \in 1..Len(input) :
              (i < j /\ input[i] \in Letters) => input[j] \in Letters)
        /\ (\A k \in 1..Len(input) : input[k] \in Digits \cup Letters)) =>
        /\ scan_result.kind = "Ok"
        /\ TagsOf(scan_result.tokens) = <<"Number", "Identifier", "Eof">>
        /\ scan_result.tokens[2].token_type.text =
              Drop(input, Len(scan_result.tokens[1].lexeme))

\* C7: digits followed by a '.' that no digit follows are a Number token
\* with the digits' value and a separate Dot token, and scanning goes on
\* after the '.'; digits, '.', digits are a single Number token; digits
\* directly followed by a letter are a Number token, then an Identifier.
C7_NumberTokens ==
    /\ [][C7_NumberStep]_vars
    /\ [](C7_DigitsThenLetters)

\* C7 witness: "10." then a letter has been scanned to Number(10), Dot,
\* Identifier.
C7_Witness ==
    /\ scan_pc = "done"
    /\ StartsWith(input, <<"1", "0", ".", "d">>)
    /\ Len(tokens) >= 4
    /\ TagsOf(Take(tokens, 3)) = <<"Number", "Dot", "Identifier">>
    /\ tokens[1].token_type.num = [int |-> 10, frac |-> <<>>]

\* The sixteen keywords, with the token kind of each.
C8_Keywords ==
    { <<<<"a", "n", "d">>, "And">>, <<<<"c", "l", "a", "s", "s">>, "Class">>,
      <<<<"e", "l", "s", "e">>, "Else">>, <<<<"f", "a", "l", "s", "e">>, "False">>,
      <<<<"f", "o", "r">>, "For">>, <<<<"f", "u", "n">>, "Fun">>,
      <<<<"i", "f">>, "If">>, <<<<"n", "i", "l">>, "Nil">>, <<<<"o", "r">>, "Or">>,
      <<<<"p", "r", "i", "n", "t">>, "Print">>,
      <<<<"r", "e", "t", "u", "r", "n">>, "Return">>,
      <<<<"s", "u", "p", "e", "r">>, "Super">>, <<<<"t", "h", "i", "s">>, "This">>,
      <<<<"t", "r", "u", "e">>, "True">>, <<<<"v", "a", "r">>, "Var">>,
      <<<<"w", "h", "i", "l", "e">>, "While">> }

\* The step that starts at a letter or '_': the maximal run of word
\* characters is one token, a keyword token iff the run is a keyword.
C8_WordStep ==
    (scan_pc = "scanning" /\ scan_pc' = "scanning" /\ source # <<>>
        /\ Head(source) \in Letters \cup {"_"}) =>
        LET n == CHOOSE k \in 1..Len(source) :
                    /\ \A i \in 1..k : source[i] \in WordChars
                    /\ (k = Len(source) \/ source[k + 1] \notin WordChars)
            word == Take(source, n)
        IN  /\ source' = Drop(source, n)
            /\ Len(tokens') = Len(tokens) + 1
            /\ Take(tokens', Len(tokens)) = tokens
            /\ tokens'[Len(tokens')].lexeme = word
            /\ \A k \in C8_Keywords :
                  (word = k[1]) <=> (tokens'[Len(tokens')].token_type = TokenType(k[2]))
            /\ (\A k \in C8_Keywords : word # k[1]) =>
                  tokens'[Len(tokens')].token_type = Identifier(word)
            /\ errors' = errors

\* The step that starts at "//": the rest of the line gives no token.
C8_LineCommentStep ==
    (scan_pc = "scanning" /\ scan_pc' = "scanning" /\ StartsWith(source, <<"/", "/">>)) =>
        /\ tokens' = tokens
        /\ errors' = errors
        /\ source' = IF IndexOf(source, NL) = 0 THEN <<>> ELSE Drop(source, IndexOf(source, NL))

\* C8: a maximal run of [A-Za-z0-9_] that starts with a letter or '_' is a
\* keyword token iff it is exactly one of the sixteen keywords, else an
\* Identifier token carrying the run; the text from "//" to the end of the
\* line gives no tokens.
C8_KeywordsAndIdentifiers == [][C8_WordStep /\ C8_LineCommentStep]_vars

\* C8 witness: "true", "True" and a comment holding a keyword have been
\* scanned to True, Identifier("True"), Eof.
C8_Witness ==
    /\ scan_pc = "done"
    /\ input = <<"t", "r", "u", "e", "T", "r", "u", "e", "/", "/">>
                 \o <<"t", "r", "u", "e">>
       \/ input = <<"t", "r", "u", "e", " ", "T", "r", "u", "e">>
    /\ TypesOf(tokens) =
          <<TokenType("True"), Identifier(<<"T", "r", "u", "e">>), TokenType("Eof")>>

\* scan_tokens' loop run to its end on a text.
RECURSIVE scan_all(_)
scan_all(s) ==
    IF s.source = <<>> THEN s
    ELSE scan_all(scan_token([s EXCEPT !.source = Tail(@)], Head(s.source)))

Rescan(text) ==
    scan_all([source |-> text, line |-> 1, tokens |-> <<>>, errors |-> <<>>])

\* The lexemes of toks, a blank between two of them.
RECURSIVE JoinLexemes(_)
JoinLexemes(toks) ==
    IF toks = <<>> THEN <<>>
    ELSE IF Len(toks) = 1 THEN toks[1].lexeme
    ELSE toks[1].lexeme \o <<" ">> \o JoinLexemes(Tail(toks))

RECURSIVE ConcatLexemes(_)
ConcatLexemes(toks) ==
    IF toks = <<>> THEN <<>> ELSE toks[1].lexeme \o ConcatLexemes(Tail(toks))

\* The lexemes of the tokens a step adds are the characters it consumed.
C9_LexemeIsSubstring ==
    (scan_pc = "scanning" /\ scan_pc' = "scanning" /\ Len(tokens') > Len(tokens)
        /\ errors' = errors) =>
        ConcatLexemes(SubSeq(tokens', Len(tokens) + 1, Len(tokens')))
            = Take(source, Len(source) - Len(source'))

\* Scanning the lexemes joined by blanks gives the same kinds and payloads.
C9_RoundTrip ==
    (scan_pc = "done" /\ scan_result.kind = "Ok") =>
        LET again == Rescan(JoinLexemes(scan_result.tokens))
        IN  /\ again.errors = <<>>
            /\ Append(TypesOf(again.tokens), TokenType("Eof")) = TypesOf(scan_result.tokens)

\* C9: for every accepted source each token's lexeme is the exact source
\* substring it was produced from, so joining the lexemes with whitespace
\* and scanning again gives the same kinds and payloads, string literals
\* and numbers with a trailing '.' included.
C9_LexemesRoundTrip ==
    /\ [][C9_LexemeIsSubstring]_vars
    /\ [](C9_RoundTrip)

(***************************************************************************)
(* Token kinds: equality and hashing.                                      *)
(***************************************************************************)
InitToken ==
    /\ tt_a \in TokenTypeSamples
    /\ tt_b \in TokenTypeSamples
    /\ tt_eq = "none"
    /\ tt_hash = <<>>
    /\ ScanIdle
    /\ RunIdle
    /\ ParseIdle

NextToken == CompareTokenTypes

SpecToken == InitToken /\ [][NextToken]_vars

SamePayload(a, b) == a.text = b.text /\ a.num = b.num

\* C10 as stated: equality and hashing of token kinds both depend on the
\* tag only, so two values of one variant with different payloads compare
\* equal and hash equal.
C10_EqAndHashByTagOnly ==
    tt_eq # "none" =>
        /\ (tt_eq = "true") <=> (tt_a.tag = tt_b.tag)
        /\ (tt_hash[1] = tt_hash[2]) <=> (tt_a.tag = tt_b.tag)

\* C10 amended: hashing depends on the tag only; equality compares the tag
\* and the payload.  Two values of one variant with different payloads hash
\* equal and compare unequal, and equal values hash equal.
C10_HashByTagEqByPayload ==
    tt_eq # "none" =>
        /\ (tt_hash[1] = tt_hash[2]) <=> (tt_a.tag = tt_b.tag)
        /\ (tt_eq = "true") <=> (tt_a.tag = tt_b.tag /\ SamePayload(tt_a, tt_b))
        /\ (tt_eq = "true") => (tt_hash[1] = tt_hash[2])

\* C10 witness: Identifier("a") and Identifier("b") compared and hashed.
C10_Witness ==
    /\ tt_eq = "false"
    /\ tt_a = Identifier(<<"a">>)
    /\ tt_b = Identifier(<<"b">>)
    /\ tt_hash[1] = tt_hash[2]

(***************************************************************************)
(* The syntax tree (expr.rs, stmt.rs).  A node is a tuple that starts with *)
(* its variant.  A Variable or Assign node holds its name token: the       *)
(* lexeme and the line.  An optional part is <<>> or <<part>>.             *)
(***************************************************************************)
LiteralExpr(value) == <<"Literal", value>>

VariableExpr(name, ln) == <<"Variable", name, ln>>

AssignExpr(name, ln, value) == <<"Assign", name, ln, value>>

BinaryExpr(left, operator, right) == <<"Binary", left, operator, right>>

CallExpr(callee, arguments) == <<"Call", callee, arguments>>

GroupingExpr(expression) == <<"Grouping", expression>>

UnaryExpr(operator, right) == <<"Unary", operator, right>>

ConditionalExpr(condition, left, right) == <<"Conditional", condition, left, right>>

LogicalExpr(left, operator, right) == <<"Logical", left, operator, right>>

GetExpr(object, name) == <<"Get", object, name>>

SetExpr(object, name, value) == <<"Set", object, name, value>>

SuperExpr(ln, method) == <<"Super", ln, method>>

ThisExpr(ln) == <<"This", ln>>

BlockStmt(statements) == <<"Block", statements>>

ClassStmt(name, superclass, methods) == <<"Class", name, superclass, methods>>

ExpressionStmt(expression) == <<"Expression", expression>>

FunctionStmt(name, params, body) == <<"Function", name, params, body>>

IfStmt(condition, then_branch, else_branch) == <<"If", condition, then_branch, else_branch>>

PrintStmt(expression) == <<"Print", expression>>

ReturnStmt(value) == <<"Return", value>>

VarStmt(name, initializer) == <<"Var", name, initializer>>

WhileStmt(condition, body) == <<"While", condition, body>>

(***************************************************************************)
(* Runtime values (Literal in expr.rs): a kind k with a boolean b, a       *)
(* number n (a fraction in lowest terms), a string s (characters) or a     *)
(* reference r into the heap.                                              *)
(***************************************************************************)
Num(p, q) == [num |-> p, den |-> q]

Nil == [k |-> "Nil", b |-> FALSE, n |-> Num(0, 1), s |-> <<>>, r |-> 0]

Boolean(b) == [Nil EXCEPT !.k = "Boolean", !.b = b]

NumberValue(n) == [Nil EXCEPT !.k = "Number", !.n = n]

StringValue(s) == [Nil EXCEPT !.k = "String", !.s = s]

FunctionValue(r) == [Nil EXCEPT !.k = "Function", !.r = r]

NativeFunctionValue(r) == [Nil EXCEPT !.k = "NativeFunction", !.r = r]

ClassValue(r) == [Nil EXCEPT !.k = "Class", !.r = r]

InstanceValue(r) == [Nil EXCEPT !.k = "Instance", !.r = r]

\* A finite map as a set of <<key, value>> pairs with one pair per key.
MapHas(m, key) == \E e \in m : e[1] = key

MapGet(m, key) == (CHOOSE e \in m : e[1] = key)[2]

MapPut(m, key, value) == {e \in m : e[1] # key} \cup {<<key, value>>}

\* The ? operator: a result that is not Ok is returned at once, an Ok one
\* goes on.
Try(result, Continue(_)) == IF result.kind # "Ok" THEN result ELSE Continue(result)

\* let value = ..; the value is computed once.
Let(value, In(_)) == In(value)

(***************************************************************************)
(* resolver.rs.  A resolver state r is [scopes, current_function, locals,  *)
(* log, kind, message]; kind is "Ok" while no error has been returned.     *)
(***************************************************************************)
\* Interpreter::resolve: locals.insert(expr, depth).
resolve(r, expr, depth) == [r EXCEPT !.locals = MapPut(@, expr, depth)]

begin_scope(r) == [r EXCEPT !.scopes = Append(@, {})]

end_scope(r) == [r EXCEPT !.scopes = Take(@, Len(@) - 1)]

ResolveError(r, message) == [r EXCEPT !.kind = "Err", !.message = message]

\* todo!(): the pass panics.
ResolveTodo(r) == [r EXCEPT !.kind = "Panic", !.message = "not yet implemented"]

\* History of the pass.  r.path is where the pass is in the program text:
\* one frame for each Block, Function, If and While statement and each
\* initializer of a Var statement it has entered and not left, the outermost
\* first, a Block's and a Function's frame with the names declared directly
\* in it so far.  r.trace has one event for each name declared, each
\* Variable expression and each Return statement resolved, with the path at
\* that time and whether the pass rejected it.
Enter(r, kind, name) ==
    [r EXCEPT !.path = Append(@, [kind |-> kind, name |-> name, names |-> {}])]

Leave(r) == [r EXCEPT !.path = Take(@, Len(@) - 1)]

Noted(r, what, name, as, rejected) ==
    [r EXCEPT !.trace = Append(@, [what |-> what, name |-> name, as |-> as,
                                   path |-> r.path, rejected |-> rejected])]

\* The frames of a path that are a scope of the program text.
ScopeFrames(path) == {i \in DOMAIN path : path[i].kind \in {"Block", "Function"}}

Innermost(path) == CHOOSE i \in ScopeFrames(path) : \A j \in ScopeFrames(path) : j <= i

\* The path once name is declared where the pass is.
Naming(path, name) ==
    IF ScopeFrames(path) = {} THEN path
    ELSE [path EXCEPT ![Innermost(path)].names = @ \cup {name}]

\* declare, when every scope is searched for the name.
declare_in_any_scope(r, name) ==
    IF r.scopes # <<>> THEN
        IF \E i \in DOMAIN r.scopes : MapHas(r.scopes[i], name)
        THEN ResolveError(r, "Variable with this name already exists in this scope.")
        ELSE [r EXCEPT !.scopes[Len(r.scopes)] = MapPut(@, name, FALSE)]
    ELSE r

declare(r, name) ==
    IF r.scopes # <<>> THEN
        IF MapHas(r.scopes[Len(r.scopes)], name)
        THEN ResolveError(r, "Variable with this name already exists in this scope.")
        ELSE [r EXCEPT !.scopes[Len(r.scopes)] = MapPut(@, name, FALSE)]
    ELSE r

define(r, name) ==
    IF r.scopes # <<>>
    THEN [r EXCEPT !.scopes[Len(r.scopes)] = MapPut(@, name, TRUE)]
    ELSE r

\* The loop of resolve_local from the scope at distance idx outwards: every
\* scope that holds the name records its distance.
RECURSIVE resolve_local_from(_, _, _, _)
resolve_local_from(r, expr, name, idx) ==
    IF idx >= Len(r.scopes) THEN r
    ELSE IF MapHas(r.scopes[Len(r.scopes) - idx], name)
         THEN resolve_local_from(resolve(r, expr, idx), expr, name, idx + 1)
         ELSE resolve_local_from(r, expr, name, idx + 1)

\* The depth the binding table has for expr, -1 when it has none.
DepthOf(table, expr) == IF MapHas(table, expr) THEN MapGet(table, expr) ELSE -1

\* resolve_local, with the history entry of the call: the scopes it walked
\* and the table's depth for expr before and after.
resolve_local(r, expr, name) ==
    Let(resolve_local_from(r, expr, name, 0), LAMBDA after :
        [after EXCEPT !.log = Append(@,
            [expr |-> expr, name |-> name, scopes |-> r.scopes,
             before |-> DepthOf(r.locals, expr),
             depth |-> DepthOf(after.locals, expr)])])

\* self.declare(name)? with the event of the history.
Declare(r, name, as) ==
    Let(declare(r, name), LAMBDA d :
        IF d.kind = "Ok"
        THEN [Noted(d, "Declare", name, as, FALSE) EXCEPT !.path = Naming(@, name)]
        ELSE Noted(d, "Declare", name, as, TRUE))

\* l.get(name) == Some(&false), when any entry of the scope counts.
in_own_initializer_any_entry(r, name) ==
    /\ r.scopes # <<>>
    /\ MapHas(r.scopes[Len(r.scopes)], name)

\* if let Some(l) = self.scopes.last() { if l.get(name) == Some(&false)
in_own_initializer(r, name) ==
    /\ r.scopes # <<>>
    /\ MapHas(r.scopes[Len(r.scopes)], name)
    /\ MapGet(r.scopes[Len(r.scopes)], name) = FALSE

\* matches!(self.current_function, FunctionType::None), never true.
is_top_level_never(r) == FALSE

\* matches!(self.current_function, FunctionType::None)
is_top_level(r) == r.current_function = "None"

RECURSIVE resolve_stmts(_, _)
RECURSIVE resolve_stmt(_, _)
RECURSIVE resolve_expr(_, _)
RECURSIVE resolve_exprs(_, _)
RECURSIVE declare_params(_, _)

\* for p in f.params: declare(p)?; define(p).
declare_params(r, params) ==
    IF params = <<>> THEN r
    ELSE Try(Declare(r, Head(params), "param"),
             LAMBDA d : declare_params(define(d, Head(params)), Tail(params)))

\* resolve_function, when current_function is left as the body had it.
resolve_function_not_restored(r, f, function_type) ==
    Try(declare_params(begin_scope(Enter([r EXCEPT !.current_function = function_type],
                                         "Function", f[2])), f[3]),
        LAMBDA p :
    Try(resolve_stmts(p, f[4]),
        LAMBDA b : Leave(end_scope(b))))

resolve_function(r, f, function_type) ==
    Try(declare_params(begin_scope(Enter([r EXCEPT !.current_function = function_type],
                                         "Function", f[2])), f[3]),
        LAMBDA p :
    Try(resolve_stmts(p, f[4]),
        LAMBDA b : Leave([end_scope(b) EXCEPT !.current_function = r.current_function])))

\* self.resolve_expr(..)? of each expression in turn.
resolve_exprs(r, exprs) ==
    IF exprs = <<>> THEN r
    ELSE Try(resolve_expr(r, Head(exprs)), LAMBDA h : resolve_exprs(h, Tail(exprs)))

resolve_expr(r, expr) ==
    CASE expr[1] = "Assign" ->
            Try(resolve_expr(r, expr[4]), LAMBDA v : resolve_local(v, expr, expr[2]))
      [] expr[1] \in {"Binary", "Logical"} -> resolve_exprs(r, <<expr[2], expr[4]>>)
      [] expr[1] = "Call" -> resolve_exprs(r, <<expr[2]>> \o expr[3])
      [] expr[1] = "Conditional" -> resolve_exprs(r, <<expr[2], expr[3], expr[4]>>)
      [] expr[1] = "Grouping" -> resolve_expr(r, expr[2])
      [] expr[1] = "Literal" -> r
      [] expr[1] = "Unary" -> resolve_expr(r, expr[3])
      [] expr[1] = "Variable" ->
            IF in_own_initializer(r, expr[2])
            THEN ResolveError(Noted(r, "Variable", expr[2], "", TRUE),
                              "Can't read local variable in its own initializer")
            ELSE resolve_local(Noted(r, "Variable", expr[2], "", FALSE), expr, expr[2])

\* The arm of resolve_stmts for one statement.
resolve_stmt(r, s) ==
    CASE s[1] = "Block" ->
            Try(resolve_stmts(begin_scope(Enter(r, "Block", "")), s[2]),
                LAMBDA b : Leave(end_scope(b)))
      [] s[1] = "Class" -> ResolveTodo(r)
      [] s[1] \in {"Expression", "Print"} -> resolve_expr(r, s[2])
      [] s[1] = "Function" ->
            Try(Declare(r, s[2], "fun"),
                LAMBDA d : resolve_function(define(d, s[2]), s, "Function"))
      [] s[1] = "If" ->
            Try(resolve_expr(r, s[2]), LAMBDA c :
            Try(resolve_stmts(Enter(c, "If", ""), <<s[3]>>), LAMBDA th :
            Try(IF s[4] # <<>> THEN resolve_stmts(th, s[4]) ELSE th, LAMBDA el :
                Leave(el))))
      [] s[1] = "Return" ->
            IF is_top_level(r)
            THEN ResolveError(Noted(r, "Return", "", "", TRUE),
                              "Cannot return from top-level code")
            ELSE IF s[2] # <<>>
                 THEN resolve_expr(Noted(r, "Return", "", "", FALSE), s[2][1])
                 ELSE Noted(r, "Return", "", "", FALSE)
      [] s[1] = "Var" ->
            Try(Declare(r, s[2], "var"), LAMBDA d :
            Try(IF s[3] # <<>> THEN resolve_expr(Enter(d, "Initializer", s[2]), s[3][1])
                ELSE Enter(d, "Initializer", s[2]),
                LAMBDA i : define(Leave(i), s[2])))
      [] s[1] = "While" ->
            Try(resolve_expr(r, s[2]), LAMBDA c :
            Try(resolve_stmts(Enter(c, "While", ""), <<s[3]>>), LAMBDA b : Leave(b)))

resolve_stmts(r, stmts) ==
    IF stmts = <<>> THEN r
    ELSE Try(resolve_stmt(r, Head(stmts)), LAMBDA h : resolve_stmts(h, Tail(stmts)))

Resolver ==
    [scopes |-> scopes, current_function |-> current_function, locals |-> locals,
     log |-> resolve_log, path |-> <<>>, trace |-> resolve_trace,
     kind |-> "Ok", message |-> ""]

(***************************************************************************)
(* Numbers.  A Number is a fraction in lowest terms with a positive        *)
(* denominator; the arithmetic is exact, as it is in f64 for the small     *)
(* integers and halves the programs below compute.  The zero with the sign *)
(* bit set, -0.0, is the fraction 0 / -1; a denominator of 0 stands for    *)
(* what f64 division gives for a zero divisor: 1 / 0 and -1 / 0 are the    *)
(* infinities and 0 / 0 is NaN.                                            *)
(***************************************************************************)
Abs(i) == IF i < 0 THEN -i ELSE i

RECURSIVE Gcd(_, _)
Gcd(p, q) == IF q = 0 THEN p ELSE Gcd(q, p % q)

Normalize(p, q) ==
    LET g == Gcd(Abs(p), Abs(q))
        sgn == IF q < 0 THEN -1 ELSE 1
    IN  Num((sgn * p) \div g, (sgn * q) \div g)

\* The sign bit of a number.
Negative(n) == n.num < 0 \/ (n.num = 0 /\ n.den < 0)

\* 0.0 and -0.0
Zero(negative) == Num(0, IF negative THEN -1 ELSE 1)

\* -n
NumNeg(n) == IF n.num = 0 THEN Zero(~Negative(n)) ELSE Num(-n.num, n.den)

\* A sum is -0.0 only when both terms are.
NumAdd(a, b) ==
    IF a.num = 0 /\ b.num = 0 THEN Zero(Negative(a) /\ Negative(b))
    ELSE Normalize(a.num * Abs(b.den) + b.num * Abs(a.den), Abs(a.den) * Abs(b.den))

NumSub(a, b) == NumAdd(a, NumNeg(b))

\* A zero product has the sign of its factors.
NumMul(a, b) ==
    IF a.num = 0 \/ b.num = 0 THEN Zero(Negative(a) # Negative(b))
    ELSE Normalize(a.num * b.num, a.den * b.den)

\* n2 == 0.0, when the sign bit is compared as well.
is_zero_of_the_same_sign(n) == n = Zero(FALSE)

\* n2 == 0.0: true of 0.0 and of -0.0.
is_zero(n) == n.num = 0 /\ n.den # 0

\* f64 division: a zero divisor gives an infinity, or NaN for 0 / 0.
NumDiv(a, b) ==
    IF b.num = 0 THEN Num(IF a.num = 0 THEN 0 ELSE IF Negative(a) # Negative(b) THEN -1 ELSE 1, 0)
    ELSE IF a.num = 0 THEN Zero(Negative(a) # Negative(b))
    ELSE Normalize(a.num * b.den, a.den * b.num)

NumLess(a, b) == a.num * Abs(b.den) < b.num * Abs(a.den)

RECURSIVE NatDigits(_)
NatDigits(n) ==
    LET d == <<"0", "1", "2", "3", "4", "5", "6", "7", "8", "9">>[(n % 10) + 1]
    IN  IF n < 10 THEN <<d>> ELSE Append(NatDigits(n \div 10), d)

RECURSIVE FracDigits(_, _)
FracDigits(rem, den) ==
    IF rem = 0 THEN <<>>
    ELSE NatDigits((rem * 10) \div den) \o FracDigits((rem * 10) % den, den)

\* The display form of a number whose decimal expansion ends: an integer
\* shows without a fraction.
NumberDisplay(n) ==
    (IF Negative(n) THEN <<"-">> ELSE <<>>)
    \o NatDigits(Abs(n.num) \div Abs(n.den))
    \o (IF Abs(n.den) = 1 THEN <<>>
        ELSE <<".">> \o FracDigits(Abs(n.num) % Abs(n.den), Abs(n.den)))

(***************************************************************************)
(* The heap: environments, functions, classes and instances are shared     *)
(* objects, so a value refers to one by its position in the heap.          *)
(***************************************************************************)
HeapObject ==
    [kind |-> "None", values |-> {}, enclosing |-> 0, declaration |-> <<>>,
     closure |-> 0, is_initializer |-> FALSE, name |-> "", superclass |-> 0,
     class |-> 0]

\* Environment::new
EnvironmentNew(enclosing) ==
    [HeapObject EXCEPT !.kind = "Environment", !.enclosing = enclosing]

\* LoxFunction::new
LoxFunctionNew(declaration, closure, is_initializer) ==
    [HeapObject EXCEPT !.kind = "Function", !.declaration = declaration,
                       !.closure = closure, !.is_initializer = is_initializer]

\* LoxClass::new; values holds the methods by name.
LoxClassNew(name, superclass, methods) ==
    [HeapObject EXCEPT !.kind = "Class", !.name = name, !.superclass = superclass,
                       !.values = methods]

\* LoxInstance::new; values holds the fields by name.
LoxInstanceNew(class) == [HeapObject EXCEPT !.kind = "Instance", !.class = class]

\* The native function clock.
Clock == [HeapObject EXCEPT !.kind = "NativeFunction", !.name = "clock"]

(***************************************************************************)
(* An interpreter state m is [environment, heap, locals, log, fuel, now].  *)
(* A step gives [m, kind, value, message]: kind is "Ok", "RuntimeError" or *)
(* "Return" as in LoxResult, "Panic" for a panic, and "OutOfFuel" when the *)
(* bound on loop iterations and calls ends the evaluation.                 *)
(***************************************************************************)
Ok(m, value) == [m |-> m, kind |-> "Ok", value |-> value, message |-> ""]

\* LoxResult::runtime_error
runtime_error(m, message) ==
    [m |-> m, kind |-> "RuntimeError", value |-> Nil, message |-> message]

\* LoxResult::Return
Return(m, value) == [m |-> m, kind |-> "Return", value |-> value, message |-> ""]

Panic(m, message) == [m |-> m, kind |-> "Panic", value |-> Nil, message |-> message]

OutOfFuel(m) == [m |-> m, kind |-> "OutOfFuel", value |-> Nil, message |-> ""]

\* Allocation of a shared object; the new object is the last of the heap.
Alloc(m, object) == [m EXCEPT !.heap = Append(@, object)]

\* Environment::wrap: a new environment whose enclosing one is the current
\* one, made the last object of the heap.
wrap(m, enclosing) == Alloc(m, EnvironmentNew(enclosing))

\* Environment::define
env_define(m, env, name, value) ==
    [m EXCEPT !.heap[env].values = MapPut(@, name, value)]

\* The nearest environment of the chain from env that has the name, or 0.
RECURSIVE env_find(_, _, _)
env_find(m, env, name) ==
    IF env = 0 THEN 0
    ELSE IF MapHas(m.heap[env].values, name) THEN env
    ELSE env_find(m, m.heap[env].enclosing, name)

\* Environment::get
env_get(m, env, name) ==
    Let(env_find(m, env, name), LAMBDA e :
        IF e = 0 THEN runtime_error(m, "Undefined variable '" \o name \o "'.")
        ELSE Ok(m, MapGet(m.heap[e].values, name)))

\* Environment::assign
env_assign(m, env, name, value) ==
    Let(env_find(m, env, name), LAMBDA e :
        IF e = 0 THEN runtime_error(m, "Undefined variable '" \o name \o "'.")
        ELSE Ok(env_define(m, e, name, value), value))

\* The environment depth links outwards from env, or 0 when the chain ends
\* before.
RECURSIVE ancestor(_, _, _)
ancestor(m, env, depth) ==
    IF env = 0 \/ depth = 0 THEN env
    ELSE ancestor(m, m.heap[env].enclosing, depth - 1)

\* Environment::get_at.  The name is there when the depth is the resolver's;
\* when it is not there the call has no specified result.
get_at(m, env, depth, name) ==
    Let(ancestor(m, env, depth), LAMBDA e :
        IF e = 0 \/ ~MapHas(m.heap[e].values, name)
        THEN Panic(m, "get_at: no such binding")
        ELSE Ok(m, MapGet(m.heap[e].values, name)))

\* Environment::assign_at
assign_at(m, env, depth, name, value) ==
    Let(ancestor(m, env, depth), LAMBDA e :
        IF e = 0 \/ ~MapHas(m.heap[e].values, name)
        THEN Panic(m, "assign_at: no such binding")
        ELSE Ok(env_define(m, e, name, value), value))

(***************************************************************************)
(* interpreter.rs                                                          *)
(***************************************************************************)
\* Interpreter::new: the global environment, with clock defined in it.
GlobalEnv == 1

InterpreterNewHeap ==
    <<[EnvironmentNew(0) EXCEPT !.values = {<<"clock", NativeFunctionValue(2)>>}], Clock>>

\* An is_truthy without the arm for Nil.
is_truthy_but_for_false(e) == ~(e.k = "Boolean" /\ ~e.b)

is_truthy(e) ==
    CASE e.k = "Boolean" -> e.b
      [] e.k = "Nil" -> FALSE
      [] OTHER -> TRUE

\* is_equal, when nil on the left equals every value.
is_equal_nil_first(a, b) ==
    CASE a.k = "Nil" -> TRUE
      [] OTHER -> a = b

is_equal(a, b) ==
    CASE a.k = "Nil" /\ b.k = "Nil" -> TRUE
      [] a.k = "Nil" -> FALSE
      [] OTHER -> a = b

\* check_num, when only the left operand is matched.
check_num_left_only(left, right) == left.k = "Number"

\* check_num: TRUE when both operands are numbers; the caller then reads them.
check_num(left, right) == left.k = "Number" /\ right.k = "Number"

\* TokenType::Plus, when the String always comes first.
plus_string_first(m, left, right) ==
    CASE left.k = "String" /\ right.k = "String" -> Ok(m, StringValue(left.s \o right.s))
      [] left.k = "String" /\ right.k = "Number" ->
            Ok(m, StringValue(left.s \o NumberDisplay(right.n)))
      [] left.k = "Number" /\ right.k = "String" ->
            Ok(m, StringValue(right.s \o NumberDisplay(left.n)))
      [] left.k = "Number" /\ right.k = "Number" ->
            Ok(m, NumberValue(NumAdd(left.n, right.n)))
      [] OTHER -> runtime_error(m, "Operands must be two numbers or two strings.")

\* TokenType::Plus => match (left, right)
plus(m, left, right) ==
    CASE left.k = "String" /\ right.k = "String" -> Ok(m, StringValue(left.s \o right.s))
      [] left.k = "String" /\ right.k = "Number" ->
            Ok(m, StringValue(left.s \o NumberDisplay(right.n)))
      [] left.k = "Number" /\ right.k = "String" ->
            Ok(m, StringValue(NumberDisplay(left.n) \o right.s))
      [] left.k = "Number" /\ right.k = "Number" ->
            Ok(m, NumberValue(NumAdd(left.n, right.n)))
      [] OTHER -> runtime_error(m, "Operands must be two numbers or two strings.")

\* The arm of evaluate for Expr::Binary, once both operands have a value.
evaluate_binary(m, operator, left, right) ==
    CASE operator \in {"Minus", "Slash", "Star", "Greater", "GreaterEqual", "Less", "LessEqual"} ->
            IF ~check_num(left, right) THEN runtime_error(m, "Operands must be numbers.")
            ELSE (CASE operator = "Minus" -> Ok(m, NumberValue(NumSub(left.n, right.n)))
                   [] operator = "Slash" ->
                        IF is_zero(right.n) THEN runtime_error(m, "Division by zero")
                        ELSE Ok(m, NumberValue(NumDiv(left.n, right.n)))
                   [] operator = "Star" -> Ok(m, NumberValue(NumMul(left.n, right.n)))
                   [] operator = "Greater" -> Ok(m, Boolean(NumLess(right.n, left.n)))
                   [] operator = "GreaterEqual" -> Ok(m, Boolean(~NumLess(left.n, right.n)))
                   [] operator = "Less" -> Ok(m, Boolean(NumLess(left.n, right.n)))
                   [] operator = "LessEqual" -> Ok(m, Boolean(~NumLess(right.n, left.n))))
      [] operator = "BangEqual" -> Ok(m, Boolean(~is_equal(left, right)))
      [] operator = "EqualEqual" -> Ok(m, Boolean(is_equal(left, right)))
      [] operator = "Plus" -> plus(m, left, right)
      [] OTHER -> Panic(m, "Invalid operator?")

\* look_up_variable, of a Variable or a This expression.
look_up_variable(m, name, expr) ==
    IF MapHas(m.locals, expr)
    THEN get_at(m, m.environment, MapGet(m.locals, expr), name)
    ELSE env_get(m, m.environment, name)

\* LoxClass::find_method: the class, then its superclasses.
RECURSIVE find_method(_, _, _)
find_method(m, class, name) ==
    IF class = 0 THEN 0
    ELSE IF MapHas(m.heap[class].values, name) THEN MapGet(m.heap[class].values, name).r
    ELSE find_method(m, m.heap[class].superclass, name)

\* LoxFunction::bind_method: a function whose closure is a new environment
\* around the method's closure, with this bound to the instance.  The new
\* function is the last object of the heap.
bind_method(m, function, instance) ==
    Let(wrap(m, m.heap[function].closure), LAMBDA w :
        Alloc(env_define(w, Len(w.heap), "this", InstanceValue(instance)),
              LoxFunctionNew(m.heap[function].declaration, Len(w.heap),
                             m.heap[function].is_initializer)))

\* The bound method as a value, when the class has the method.
bound_method(m, method, instance, name) ==
    IF method = 0 THEN runtime_error(m, "Undefined property '" \o name \o "'.")
    ELSE Let(bind_method(m, method, instance), LAMBDA b : Ok(b, FunctionValue(Len(b.heap))))

\* LoxInstance::get: the field of the name, else the class's method of the
\* name bound to the instance.
instance_get(m, instance, name) ==
    IF MapHas(m.heap[instance].values, name)
    THEN Ok(m, MapGet(m.heap[instance].values, name))
    ELSE bound_method(m, find_method(m, m.heap[instance].class, name), instance, name)

\* The arm of evaluate for Expr::Super: super at the expression's depth,
\* this one environment nearer.
evaluate_super(m, expr) ==
    IF ~MapHas(m.locals, expr) THEN Panic(m, "called Option::unwrap() on a None value")
    ELSE Let(MapGet(m.locals, expr), LAMBDA distance :
         Try(get_at(m, m.environment, distance, "super"), LAMBDA superclass :
             IF superclass.value.k # "Class" THEN Panic(m, "unreachable, must be a class")
             ELSE IF distance = 0 THEN Panic(m, "attempt to subtract with overflow")
             ELSE
         Try(get_at(m, m.environment, distance - 1, "this"), LAMBDA object :
             IF object.value.k # "Instance" THEN Panic(m, "unreachable, must be an instance")
             ELSE bound_method(m, find_method(m, superclass.value.r, expr[3]),
                               object.value.r, expr[3]))))

\* The number of parameters of init, 0 for a class that has no init.
init_arity(m, init) == IF init = 0 THEN 0 ELSE Len(m.heap[init].declaration[3])

\* get_arity of a callable value.
get_arity(m, callee) ==
    CASE callee.k = "Function" -> Len(m.heap[callee.r].declaration[3])
      [] callee.k = "NativeFunction" -> 0
      [] callee.k = "Class" -> init_arity(m, find_method(m, callee.r, "init"))

ArityMessage(arity, n) ==
    "Expected " \o ToString(arity) \o " arguments but got " \o ToString(n) \o "."

RECURSIVE define_params(_, _, _, _)
define_params(m, env, params, arguments) ==
    IF params = <<>> THEN m
    ELSE define_params(env_define(m, env, Head(params), Head(arguments)),
                       env, Tail(params), Tail(arguments))

RECURSIVE execute(_, _)
RECURSIVE execute_all(_, _)
RECURSIVE execute_block(_, _, _)
RECURSIVE execute_while(_, _)
RECURSIVE execute_class(_, _)
RECURSIVE evaluate(_, _)
RECURSIVE evaluate_arguments(_, _, _)
RECURSIVE call(_, _, _)
RECURSIVE function_call(_, _, _)
RECURSIVE class_call(_, _, _)

\* for s in statements { self.execute(s)?; } and
\* statements.iter().try_for_each(|s| self.execute(s)): the first statement
\* that does not end Ok ends the list.
execute_all(m, statements) ==
    IF statements = <<>> THEN Ok(m, Nil)
    ELSE Try(execute(m, Head(statements)),
             LAMBDA h : execute_all(h.m, Tail(statements)))

\* The history entry of one return of execute_block.
BlockReturn(previous, entered, after, exit) ==
    [previous |-> previous, entered |-> entered, after |-> after, exit |-> exit]

\* execute_block with the statements' result propagated before the
\* environment is put back.
execute_block_propagate(m, statements, env) ==
    LET previous == m.environment
    IN  Let(execute_all([m EXCEPT !.environment = env], statements), LAMBDA result :
        Let(IF result.kind = "Ok"
            THEN [result.m EXCEPT !.environment = previous]
            ELSE result.m, LAMBDA restored :
        [result EXCEPT !.m = [restored EXCEPT !.log =
            Append(@, BlockReturn(previous, env, restored.environment, result.kind))]]))

execute_block(m, statements, env) ==
    LET previous == m.environment
    IN  Let(execute_all([m EXCEPT !.environment = env], statements), LAMBDA result :
        Let([result.m EXCEPT !.environment = previous], LAMBDA restored :
        [result EXCEPT !.m = [restored EXCEPT !.log =
            Append(@, BlockReturn(previous, env, restored.environment, result.kind))]]))

\* LoxFunction::call: a new environment around the closure, the parameters
\* defined in it, the body run as a block; a Return ends the call with its
\* value, an initializer gives this.
function_call(m, function, arguments) ==
    IF m.fuel = 0 THEN OutOfFuel(m)
    ELSE Let(m.heap[function], LAMBDA f :
         Let(wrap([m EXCEPT !.fuel = @ - 1], f.closure), LAMBDA w :
         Let(execute_block(define_params(w, Len(w.heap), f.declaration[3], arguments),
                           f.declaration[4], Len(w.heap)), LAMBDA result :
             IF result.kind \notin {"Ok", "Return"} THEN result
             ELSE IF f.is_initializer THEN get_at(result.m, f.closure, 0, "this")
             ELSE Ok(result.m, IF result.kind = "Return" THEN result.value ELSE Nil))))

\* LoxClass::call: a new instance; init, when the class has one, is bound to
\* it and called with the arguments.
class_call(m, class, arguments) ==
    Let(Alloc(m, LoxInstanceNew(class)), LAMBDA a :
    Let(find_method(a, class, "init"), LAMBDA init :
        IF init = 0 THEN Ok(a, InstanceValue(Len(a.heap)))
        ELSE Let(bind_method(a, init, Len(a.heap)), LAMBDA b :
             Try(function_call(b, Len(b.heap), arguments),
                 LAMBDA result : Ok(result.m, InstanceValue(Len(a.heap)))))))

\* The arguments evaluated from the last to the first.
RECURSIVE evaluate_arguments_right_first(_, _, _)
evaluate_arguments_right_first(m, arguments, values) ==
    IF arguments = <<>> THEN Ok(m, values)
    ELSE Try(evaluate(m, arguments[Len(arguments)]),
             LAMBDA h : evaluate_arguments_right_first(
                            h.m, SubSeq(arguments, 1, Len(arguments) - 1),
                            <<h.value>> \o values))

\* for arg in e.arguments.iter() { arguments.push(self.evaluate(arg)?); }
\* The value of the result is the list of the arguments' values.
evaluate_arguments(m, arguments, values) ==
    IF arguments = <<>> THEN Ok(m, values)
    ELSE Try(evaluate(m, Head(arguments)),
             LAMBDA h : evaluate_arguments(h.m, Tail(arguments), Append(values, h.value)))

\* The arm of evaluate for Expr::Call, once the callee and the arguments
\* have a value.
call(m, callee, arguments) ==
    IF callee.k \notin {"Function", "NativeFunction", "Class"}
    THEN runtime_error(m, "Can only call functions and classes.")
    ELSE IF Len(arguments) # get_arity(m, callee)
    THEN runtime_error(m, ArityMessage(get_arity(m, callee), Len(arguments)))
    ELSE CASE callee.k = "Function" -> function_call(m, callee.r, arguments)
           [] callee.k = "NativeFunction" -> Ok(m, NumberValue(Num(m.now, 1)))
           [] callee.k = "Class" -> class_call(m, callee.r, arguments)

evaluate(m, expr) ==
    CASE expr[1] = "Binary" ->
            Try(evaluate(m, expr[2]), LAMBDA left :
            Try(evaluate(left.m, expr[4]), LAMBDA right :
                evaluate_binary(right.m, expr[3], left.value, right.value)))
      [] expr[1] = "Call" ->
            Try(evaluate(m, expr[2]), LAMBDA callee :
            Try(evaluate_arguments(callee.m, expr[3], <<>>), LAMBDA arguments :
                call(arguments.m, callee.value, arguments.value)))
      [] expr[1] = "Grouping" -> evaluate(m, expr[2])
      [] expr[1] = "Literal" -> Ok(m, expr[2])
      [] expr[1] = "Unary" ->
            Try(evaluate(m, expr[3]), LAMBDA right :
                (CASE expr[2] = "Minus" ->
                        IF right.value.k = "Number"
                        THEN Ok(right.m, NumberValue(NumNeg(right.value.n)))
                        ELSE runtime_error(right.m, "Operand must be a number.")
                   [] expr[2] = "Bang" -> Ok(right.m, Boolean(~is_truthy(right.value)))
                   [] OTHER -> Panic(right.m, "Invalid operator?")))
      [] expr[1] = "Conditional" ->
            Try(evaluate(m, expr[2]), LAMBDA condition :
                IF is_truthy(condition.value) THEN evaluate(condition.m, expr[3])
                ELSE evaluate(condition.m, expr[4]))
      [] expr[1] = "Variable" -> look_up_variable(m, expr[2], expr)
      [] expr[1] = "Assign" ->
            Try(evaluate(m, expr[4]), LAMBDA value :
                IF MapHas(value.m.locals, expr)
                THEN assign_at(value.m, value.m.environment, MapGet(value.m.locals, expr),
                               expr[2], value.value)
                ELSE env_assign(value.m, value.m.environment, expr[2], value.value))
      [] expr[1] = "Logical" ->
            Try(evaluate(m, expr[2]), LAMBDA left :
                IF expr[3] = "Or" /\ is_truthy(left.value) THEN left
                ELSE IF expr[3] # "Or" /\ ~is_truthy(left.value) THEN left
                ELSE evaluate(left.m, expr[4]))
      [] expr[1] = "Get" ->
            Try(evaluate(m, expr[2]), LAMBDA object :
                IF object.value.k # "Instance"
                THEN runtime_error(object.m, "Only instances have properties.")
                ELSE instance_get(object.m, object.value.r, expr[3]))
      [] expr[1] = "Set" ->
            Try(evaluate(m, expr[2]), LAMBDA object :
                IF object.value.k # "Instance"
                THEN runtime_error(object.m, "Only instances have fields.")
                ELSE
            Try(evaluate(object.m, expr[4]), LAMBDA value :
                Ok(env_define(value.m, object.value.r, expr[3], value.value), value.value)))
      [] expr[1] = "Super" -> evaluate_super(m, expr)
      [] expr[1] = "This" -> look_up_variable(m, "this", expr)

\* while self.is_truthy(&condition) { self.execute(&s.body)?; ... }
execute_while(m, s) ==
    Try(evaluate(m, s[2]), LAMBDA condition :
        IF ~is_truthy(condition.value) THEN Ok(condition.m, Nil)
        ELSE IF condition.m.fuel = 0 THEN OutOfFuel(condition.m)
        ELSE Try(execute([condition.m EXCEPT !.fuel = @ - 1], s[3]),
                 LAMBDA body : execute_while(body.m, s)))

\* for method in &s.methods: a function closed over the current environment
\* for each, by name; a later method replaces an earlier one of its name.
RECURSIVE define_methods(_, _, _)
define_methods(m, methods, defined) ==
    IF methods = <<>> THEN Ok(m, defined)
    ELSE IF Head(methods)[1] # "Function" THEN Panic(m, "I think")
    ELSE Let(Alloc(m, LoxFunctionNew(Head(methods), m.environment, Head(methods)[2] = "init")),
             LAMBDA a : define_methods(a, Tail(methods),
                            MapPut(defined, Head(methods)[2], FunctionValue(Len(a.heap)))))

\* self.environment = Environment::wrap(..); define("super", superclass)
enter_super(m, superclass) ==
    Let(wrap(m, m.environment), LAMBDA w :
        env_define([w EXCEPT !.environment = Len(w.heap)], Len(w.heap), "super", superclass))

\* self.environment = enclosing
leave_super(m) == [m EXCEPT !.environment = m.heap[@].enclosing]

\* The arm of execute for Stmt::Class.
execute_class(m, s) ==
    LET has == s[3] # <<>>
    IN  Try(IF has THEN evaluate(m, s[3][1]) ELSE Ok(m, Nil), LAMBDA sc :
            IF has /\ sc.value.k # "Class"
            THEN runtime_error(sc.m, "Superclass must be a class.")
            ELSE
        Let(env_define(sc.m, sc.m.environment, s[2], Nil), LAMBDA d :
        Try(define_methods(IF has THEN enter_super(d, sc.value) ELSE d, s[4], {}),
            LAMBDA methods :
        Let(Alloc(IF has THEN leave_super(methods.m) ELSE methods.m,
                  LoxClassNew(s[2], IF has THEN sc.value.r ELSE 0, methods.value)),
            LAMBDA c :
        Try(env_assign(c, c.environment, s[2], ClassValue(Len(c.heap))),
            LAMBDA assigned : Ok(assigned.m, Nil))))))

execute(m, s) ==
    CASE s[1] = "Block" ->
            Let(wrap(m, m.environment), LAMBDA w : execute_block(w, s[2], Len(w.heap)))
      [] s[1] = "Class" -> execute_class(m, s)
      [] s[1] \in {"Expression", "Print"} ->
            Try(evaluate(m, s[2]), LAMBDA value : Ok(value.m, Nil))
      [] s[1] = "Function" ->
            Let(Alloc(m, LoxFunctionNew(s, m.environment, FALSE)), LAMBDA a :
                Ok(env_define(a, a.environment, s[2], FunctionValue(Len(a.heap))), Nil))
      [] s[1] = "If" ->
            Try(evaluate(m, s[2]), LAMBDA condition :
                IF is_truthy(condition.value) THEN execute(condition.m, s[3])
                ELSE IF s[4] # <<>> THEN execute(condition.m, s[4][1])
                ELSE Ok(condition.m, Nil))
      [] s[1] = "Return" ->
            IF s[2] # <<>>
            THEN Try(evaluate(m, s[2][1]), LAMBDA value : Return(value.m, value.value))
            ELSE Return(m, Nil)
      [] s[1] = "Var" ->
            Try(IF s[3] # <<>> THEN evaluate(m, s[3][1]) ELSE Ok(m, Nil), LAMBDA value :
                Ok(env_define(value.m, value.m.environment, s[2], value.value), Nil))
      [] s[1] = "While" -> execute_while(m, s)

interpret(m, statements) == execute_all(m, statements)

(***************************************************************************)
(* The resolver and the interpreter on a program.  Both are public: a      *)
(* caller runs the resolver and then the interpreter, or the interpreter   *)
(* alone.                                                                  *)
(***************************************************************************)
MaxNest == 2

MaxStmts == 2

MaxFuel == 2

\* What a call of clock can read.
ClockReadings == {0, 1}

ResultOf(r) == [kind |-> r.kind, message |-> r.message]

ResolveStmts ==
    /\ resolve_result.kind = "None"
    /\ interp_result.kind = "None"
    /\ \E r \in {resolve_stmts(Resolver, program)} :
           /\ scopes' = r.scopes
           /\ current_function' = r.current_function
           /\ locals' = r.locals
           /\ resolve_log' = r.log
           /\ resolve_trace' = r.trace
           /\ resolve_result' = ResultOf(r)
    /\ UNCHANGED <<program, environment, heap, interp_result, block_log, scanVars, tokenVars, parseVars>>

Interpret ==
    /\ interp_result.kind = "None"
    /\ resolve_result.kind # "Panic"
    /\ \E now \in ClockReadings :
         \E r \in {interpret([environment |-> environment, heap |-> heap,
                              locals |-> locals, log |-> block_log,
                              fuel |-> MaxFuel, now |-> now], program)} :
             /\ environment' = r.m.environment
             /\ heap' = r.m.heap
             /\ block_log' = r.m.log
             /\ interp_result' = ResultOf(r)
    /\ UNCHANGED <<program, resolverVars, locals, scanVars, tokenVars, parseVars>>

NextRun == ResolveStmts \/ Interpret

\* The statements a program's innermost list is made of; ln is the line of
\* the variable's token.
Leaves == {"print a", "a = 2", "var a = 3", "return 1", "print -nil", "var a = a"}

One == LiteralExpr(NumberValue(Num(1, 1)))

Leaf(kind, ln) ==
    CASE kind = "print a" -> PrintStmt(VariableExpr("a", ln))
      [] kind = "a = 2" -> ExpressionStmt(AssignExpr("a", ln, LiteralExpr(NumberValue(Num(2, 1)))))
      [] kind = "var a = 3" -> VarStmt("a", <<LiteralExpr(NumberValue(Num(3, 1)))>>)
      [] kind = "return 1" -> ReturnStmt(<<One>>)
      [] kind = "print -nil" -> PrintStmt(UnaryExpr("Minus", LiteralExpr(Nil)))
      [] kind = "var a = a" -> VarStmt("a", <<VariableExpr("a", ln)>>)

\* What a statement list is put in; ln is the line of the tokens added.
Wrappers == {"block", "var block", "fun", "if else", "while"}

Wrap(kind, ln, inner) ==
    CASE kind = "block" -> <<BlockStmt(inner)>>
      [] kind = "var block" -> <<BlockStmt(<<VarStmt("a", <<One>>)>> \o inner)>>
      [] kind = "fun" ->
            <<FunctionStmt("f", <<"a">>, inner),
              ExpressionStmt(CallExpr(VariableExpr("f", ln), <<One>>))>>
      [] kind = "if else" ->
            <<IfStmt(LiteralExpr(Boolean(FALSE)), PrintStmt(One), <<BlockStmt(inner)>>)>>
      [] kind = "while" ->
            <<VarStmt("i", <<LiteralExpr(Boolean(TRUE))>>),
              WhileStmt(VariableExpr("i", ln),
                        BlockStmt(<<ExpressionStmt(AssignExpr("i", ln, LiteralExpr(Boolean(FALSE))))>>
                                  \o inner))>>

RECURSIVE Wrapped(_, _)
Wrapped(kinds, inner) ==
    IF kinds = <<>> THEN inner
    ELSE Wrap(Head(kinds), MaxStmts + Len(kinds), Wrapped(Tail(kinds), inner))

ProgramOf(kinds, leaves) ==
    Wrapped(kinds, [i \in 1..Len(leaves) |-> Leaf(leaves[i], i)])

\* Resolver::new on Interpreter::new, and a program.
InitRun ==
    /\ \E kinds \in Texts(Wrappers, MaxNest), leaves \in Texts(Leaves, MaxStmts) :
         program = ProgramOf(kinds, leaves)
    /\ scopes = <<>>
    /\ current_function = "None"
    /\ resolve_result = [kind |-> "None", message |-> ""]
    /\ resolve_log = <<>>
    /\ resolve_trace = <<>>
    /\ locals = {}
    /\ environment = GlobalEnv
    /\ heap = InterpreterNewHeap
    /\ interp_result = [kind |-> "None", message |-> ""]
    /\ block_log = <<>>
    /\ ScanIdle
    /\ TokenIdle
    /\ ParseIdle

SpecRun == InitRun /\ [][NextRun]_vars

\* The statements the resolver's programs are made of: names read, declared
\* twice and read in their own initializer, returns, and functions.
ResolveLeaves ==
    {"print a", "var a = 3", "var a = a + 1", "var a = a = 1", "return 1", "return",
     "fun a", "fun g(a, a)"}

ResolveLeaf(kind, ln) ==
    CASE kind = "print a" -> PrintStmt(VariableExpr("a", ln))
      [] kind = "var a = 3" -> VarStmt("a", <<LiteralExpr(NumberValue(Num(3, 1)))>>)
      [] kind = "var a = a + 1" -> VarStmt("a", <<BinaryExpr(VariableExpr("a", ln), "Plus", One)>>)
      [] kind = "var a = a = 1" -> VarStmt("a", <<AssignExpr("a", ln, One)>>)
      [] kind = "return 1" -> ReturnStmt(<<One>>)
      [] kind = "return" -> ReturnStmt(<<>>)
      [] kind = "fun a" -> FunctionStmt("a", <<>>, <<>>)
      [] kind = "fun g(a, a)" -> FunctionStmt("g", <<"a", "a">>, <<>>)

\* Class declarations: a method of the given name whose body is the return.
ClassLeaves == {<<"init", <<One>>>>, <<"init", <<>>>>, <<"area", <<One>>>>}

ClassLeaf(method) ==
    ClassStmt("A", <<>>, <<FunctionStmt(method[1], <<>>, <<ReturnStmt(method[2])>>)>>)

\* Two uses of a whose tokens are on one line, at different depths:
\* { var a = 1; { use } use } and var a = 1; use { var a = 1; use }.
Uses == {PrintStmt(VariableExpr("a", 1)), ExpressionStmt(AssignExpr("a", 1, One))}

SameLinePrograms ==
    {<<BlockStmt(<<VarStmt("a", <<One>>), BlockStmt(<<inner>>), outer>>)>> :
        inner \in Uses, outer \in Uses}
    \cup {<<VarStmt("a", <<One>>), outer, BlockStmt(<<VarStmt("a", <<One>>), inner>>)>> :
            inner \in Uses, outer \in Uses}

ResolvePrograms ==
    {Wrapped(kinds, [i \in 1..Len(leaves) |-> ResolveLeaf(leaves[i], i)]) :
        kinds \in Texts(Wrappers, MaxNest), leaves \in Texts(ResolveLeaves, MaxStmts)}
    \cup {Wrapped(kinds, <<ClassLeaf(method)>>) :
            kinds \in Texts(Wrappers, MaxNest), method \in ClassLeaves}
    \cup SameLinePrograms

\* Resolver::new on Interpreter::new, and a program for the resolver.
InitResolve ==
    /\ program \in ResolvePrograms
    /\ scopes = <<>>
    /\ current_function = "None"
    /\ resolve_result = [kind |-> "None", message |-> ""]
    /\ resolve_log = <<>>
    /\ resolve_trace = <<>>
    /\ locals = {}
    /\ environment = GlobalEnv
    /\ heap = InterpreterNewHeap
    /\ interp_result = [kind |-> "None", message |-> ""]
    /\ block_log = <<>>
    /\ ScanIdle
    /\ TokenIdle
    /\ ParseIdle

SpecResolve == InitResolve /\ [][ResolveStmts]_vars

\* The operands of the divisions: an expression and the value it has.
NumberExpr(p, q) == LiteralExpr(NumberValue(Num(p, q)))

LeftOperands ==
    {<<NumberExpr(0, 1), NumberValue(Zero(FALSE))>>,
     <<NumberExpr(1, 1), NumberValue(Num(1, 1))>>,
     <<NumberExpr(6, 1), NumberValue(Num(6, 1))>>,
     <<NumberExpr(1, 2), NumberValue(Num(1, 2))>>,
     <<UnaryExpr("Minus", NumberExpr(3, 1)), NumberValue(Num(-3, 1))>>,
     <<UnaryExpr("Minus", NumberExpr(0, 1)), NumberValue(Zero(TRUE))>>,
     <<LiteralExpr(Nil), Nil>>,
     <<LiteralExpr(StringValue(<<"s">>)), StringValue(<<"s">>)>>,
     <<LiteralExpr(Boolean(TRUE)), Boolean(TRUE)>>}

RightOperands ==
    {<<NumberExpr(0, 1), NumberValue(Zero(FALSE))>>,
     <<UnaryExpr("Minus", NumberExpr(0, 1)), NumberValue(Zero(TRUE))>>,
     <<BinaryExpr(NumberExpr(1, 1), "Minus", NumberExpr(1, 1)), NumberValue(Zero(FALSE))>>,
     <<BinaryExpr(NumberExpr(0, 1), "Star", UnaryExpr("Minus", NumberExpr(1, 1))), NumberValue(Zero(TRUE))>>,
     <<NumberExpr(2, 1), NumberValue(Num(2, 1))>>,
     <<NumberExpr(3, 1), NumberValue(Num(3, 1))>>,
     <<NumberExpr(1, 2), NumberValue(Num(1, 2))>>,
     <<UnaryExpr("Minus", NumberExpr(4, 1)), NumberValue(Num(-4, 1))>>,
     <<LiteralExpr(Nil), Nil>>}

\* var q = left / right;
Division(left, right) == <<VarStmt("q", <<BinaryExpr(left, "Slash", right)>>)>>

\* Resolver::new on Interpreter::new, and a division.
InitDivide ==
    /\ \E left \in LeftOperands, right \in RightOperands :
           program = Division(left[1], right[1])
    /\ scopes = <<>>
    /\ current_function = "None"
    /\ resolve_result = [kind |-> "None", message |-> ""]
    /\ resolve_log = <<>>
    /\ resolve_trace = <<>>
    /\ locals = {}
    /\ environment = GlobalEnv
    /\ heap = InterpreterNewHeap
    /\ interp_result = [kind |-> "None", message |-> ""]
    /\ block_log = <<>>
    /\ ScanIdle
    /\ TokenIdle
    /\ ParseIdle

SpecDivide == InitDivide /\ [][NextRun]_vars

\* The operands of the binary expressions: an expression, the value it has,
\* the text of the value when it is a Number, and for an assignment to t
\* the digit it appends to t (t = t * 10 + digit).
Valued(expr, value, text) == [expr |-> expr, value |-> value, text |-> text, digit |-> 0]

AppendDigit(digit) ==
    [expr |-> AssignExpr("t", 1,
                 BinaryExpr(BinaryExpr(VariableExpr("t", 1), "Star", NumberExpr(10, 1)),
                            "Plus", NumberExpr(digit, 1))),
     value |-> Nil, text |-> <<>>, digit |-> digit]

Values ==
    {Valued(NumberExpr(0, 1), NumberValue(Num(0, 1)), <<"0">>),
     Valued(NumberExpr(1, 1), NumberValue(Num(1, 1)), <<"1">>),
     Valued(NumberExpr(2, 1), NumberValue(Num(2, 1)), <<"2">>),
     Valued(NumberExpr(8, 1), NumberValue(Num(8, 1)), <<"8">>),
     Valued(NumberExpr(1, 2), NumberValue(Num(1, 2)), <<"0", ".", "5">>),
     Valued(UnaryExpr("Minus", NumberExpr(3, 1)), NumberValue(Num(-3, 1)), <<"-", "3">>),
     Valued(BinaryExpr(NumberExpr(1, 1), "Plus", NumberExpr(2, 1)),
             NumberValue(Num(3, 1)), <<"3">>),
     Valued(BinaryExpr(NumberExpr(4, 1), "Minus", NumberExpr(5, 1)),
             NumberValue(Num(-1, 1)), <<"-", "1">>),
     Valued(BinaryExpr(NumberExpr(1, 1), "Star", NumberExpr(2, 1)),
             NumberValue(Num(2, 1)), <<"2">>),
     Valued(LiteralExpr(StringValue(<<"s">>)), StringValue(<<"s">>), <<>>),
     Valued(LiteralExpr(StringValue(<<>>)), StringValue(<<>>), <<>>),
     Valued(LiteralExpr(Nil), Nil, <<>>),
     Valued(LiteralExpr(Boolean(TRUE)), Boolean(TRUE), <<>>),
     Valued(LiteralExpr(Boolean(FALSE)), Boolean(FALSE), <<>>),
     Valued(VariableExpr("f", 1), FunctionValue(0), <<>>),
     Valued(VariableExpr("A", 1), ClassValue(0), <<>>),
     Valued(VariableExpr("i", 1), InstanceValue(0), <<>>),
     Valued(VariableExpr("clock", 1), NativeFunctionValue(0), <<>>)}

BinaryOperators ==
    {"Plus", "Minus", "Star", "Slash", "Greater", "GreaterEqual", "Less", "LessEqual",
     "EqualEqual", "BangEqual"}

\* var t = 0; fun f() {} class A {} var i = A();
Prelude ==
    <<VarStmt("t", <<NumberExpr(0, 1)>>),
      FunctionStmt("f", <<>>, <<>>),
      ClassStmt("A", <<>>, <<>>),
      VarStmt("i", <<CallExpr(VariableExpr("A", 1), <<>>)>>)>>

\* var q = left operator right;
BinaryProgram(left, operator, right) ==
    Prelude \o <<VarStmt("q", <<BinaryExpr(left, operator, right)>>)>>

\* var q = a == b; var p = b == a; var n = a != b; var s = a == a;
EqualityProgram(a, b) ==
    Prelude \o <<VarStmt("q", <<BinaryExpr(a, "EqualEqual", b)>>),
                 VarStmt("p", <<BinaryExpr(b, "EqualEqual", a)>>),
                 VarStmt("n", <<BinaryExpr(a, "BangEqual", b)>>),
                 VarStmt("s", <<BinaryExpr(a, "EqualEqual", a)>>)>>

BinaryPrograms ==
    {BinaryProgram(left.expr, operator, right.expr) :
        left \in Values \cup {AppendDigit(1)}, operator \in BinaryOperators,
        right \in Values \cup {AppendDigit(2)}}
    \cup {EqualityProgram(a.expr, b.expr) : a \in Values, b \in Values}

\* Interpreter::new, and a program around a binary expression.
InitBinary ==
    /\ program \in BinaryPrograms
    /\ scopes = <<>>
    /\ current_function = "None"
    /\ resolve_result = [kind |-> "None", message |-> ""]
    /\ resolve_log = <<>>
    /\ resolve_trace = <<>>
    /\ locals = {}
    /\ environment = GlobalEnv
    /\ heap = InterpreterNewHeap
    /\ interp_result = [kind |-> "None", message |-> ""]
    /\ block_log = <<>>
    /\ ScanIdle
    /\ TokenIdle
    /\ ParseIdle

SpecBinary == InitBinary /\ [][Interpret]_vars

\* Calls and logical expressions whose parts leave a trail in t: the part
\* at place d appends the digit d to t.  The body of every function sets b.
MaxArgs == 3

SetB == ExpressionStmt(AssignExpr("b", 1, NumberExpr(1, 1)))

\* var t = 0; var b = 0; fun f() { b = 1; } fun g(x) { b = 1; }
\* fun h(x, y) { b = 1; } class A {} class B { init(x) { b = 1; } }
\* var i = A();
CallPrelude ==
    <<VarStmt("t", <<NumberExpr(0, 1)>>),
      VarStmt("b", <<NumberExpr(0, 1)>>),
      FunctionStmt("f", <<>>, <<SetB>>),
      FunctionStmt("g", <<"x">>, <<SetB>>),
      FunctionStmt("h", <<"x", "y">>, <<SetB>>),
      ClassStmt("A", <<>>, <<>>),
      ClassStmt("B", <<>>, <<FunctionStmt("init", <<"x">>, <<SetB>>)>>),
      VarStmt("i", <<CallExpr(VariableExpr("A", 1), <<>>)>>)>>

\* The callees: the expression, the kind of its value, the arity of a
\* callable, whether its body sets b, and the digit it appends to t.
Callee(expr, kind, arity, sets, digit) ==
    [expr |-> expr, kind |-> kind, arity |-> arity, sets |-> sets, digit |-> digit]

Callees ==
    {Callee(VariableExpr("f", 1), "Function", 0, TRUE, 0),
     Callee(VariableExpr("g", 1), "Function", 1, TRUE, 0),
     Callee(VariableExpr("h", 1), "Function", 2, TRUE, 0),
     Callee(VariableExpr("A", 1), "Class", 0, FALSE, 0),
     Callee(VariableExpr("B", 1), "Class", 1, TRUE, 0),
     Callee(VariableExpr("clock", 1), "NativeFunction", 0, FALSE, 0),
     Callee(VariableExpr("i", 1), "Instance", 0, FALSE, 0),
     Callee(LiteralExpr(Nil), "Nil", 0, FALSE, 0),
     Callee(LiteralExpr(Boolean(TRUE)), "Boolean", 0, FALSE, 0),
     Callee(NumberExpr(1, 1), "Number", 0, FALSE, 0),
     Callee(LiteralExpr(StringValue(<<"s">>)), "String", 0, FALSE, 0),
     Callee(AppendDigit(1).expr, "Number", 0, FALSE, 1),
     Callee(ConditionalExpr(AppendDigit(1).expr, VariableExpr("g", 1), VariableExpr("h", 1)),
            "Function", 1, TRUE, 1),
     Callee(ConditionalExpr(AppendDigit(1).expr, VariableExpr("h", 1), VariableExpr("g", 1)),
            "Function", 2, TRUE, 1)}

\* -nil: 'Operand must be a number.'
Faulty == UnaryExpr("Minus", LiteralExpr(Nil))

\* The argument at place j: it appends the digit j + 1, or it fails.
Argument(j, fails) == IF fails THEN Faulty ELSE AppendDigit(j + 1).expr

ArgumentLists ==
    {[j \in 1..Len(fails) |-> Argument(j, fails[j])] : fails \in Texts(BOOLEAN, MaxArgs)}

\* var q = callee(arguments);
CallProgram(callee, arguments) ==
    CallPrelude \o <<VarStmt("q", <<CallExpr(callee, arguments)>>)>>

\* var q = left or right; var q = left and right;
LogicalRights ==
    Values \cup {AppendDigit(2), [expr |-> Faulty, value |-> Nil, text |-> <<>>, digit |-> 0]}

LogicalProgram(left, operator, right) ==
    CallPrelude \o <<VarStmt("q", <<LogicalExpr(left, operator, right)>>)>>

OrderPrograms ==
    {CallProgram(callee.expr, arguments) : callee \in Callees, arguments \in ArgumentLists}
    \cup {LogicalProgram(left.expr, operator, right.expr) :
            left \in Values \cup {AppendDigit(1)}, operator \in {"Or", "And"},
            right \in LogicalRights}

\* Interpreter::new, and a program around a call or a logical expression.
InitOrder ==
    /\ program \in OrderPrograms
    /\ scopes = <<>>
    /\ current_function = "None"
    /\ resolve_result = [kind |-> "None", message |-> ""]
    /\ resolve_log = <<>>
    /\ resolve_trace = <<>>
    /\ locals = {}
    /\ environment = GlobalEnv
    /\ heap = InterpreterNewHeap
    /\ interp_result = [kind |-> "None", message |-> ""]
    /\ block_log = <<>>
    /\ ScanIdle
    /\ TokenIdle
    /\ ParseIdle

SpecOrder == InitOrder /\ [][Interpret]_vars

(***************************************************************************)
(* Properties of the resolver and the interpreter.                         *)
(***************************************************************************)
\* The distances, innermost first, of the scopes that hold the name.
Holders(scps, name) ==
    {d \in 0..(Len(scps) - 1) : MapHas(scps[Len(scps) - d], name)}

Min(S) == CHOOSE x \in S : \A y \in S : x <= y

\* C3: after resolve_local on a Variable or Assign expression whose name is
\* in one or more scopes, the binding table has for it the distance of the
\* innermost scope that holds the name, whatever outer scopes hold it too;
\* when no scope holds the name the call adds no entry.
C3_InnermostDepthRecorded ==
    \A i \in 1..Len(resolve_log) :
        LET e == resolve_log[i]
        IN  IF Holders(e.scopes, e.name) = {}
            THEN e.depth = e.before
            ELSE e.depth = Min(Holders(e.scopes, e.name))

\* C1: every return of execute_block leaves the current environment the one
\* it was at the call, whether the statements ended Ok, with a RuntimeError
\* or with a Return.
C1_BlockRestoresEnvironment ==
    \A i \in 1..Len(block_log) : block_log[i].after = block_log[i].previous

\* A Return has gone out of a block nested in a function's body and then
\* out of the body: two returns of execute_block, the inner one called from
\* the environment the outer one entered.
C1_Witness ==
    \E i, j \in 1..Len(block_log) :
        /\ i < j
        /\ block_log[i].exit = "Return"
        /\ block_log[j].exit = "Return"
        /\ block_log[i].previous = block_log[j].entered
        /\ block_log[i].previous # block_log[j].previous

\* The same for a RuntimeError out of a block nested in a block.
C1_WitnessRuntimeError ==
    \E i, j \in 1..Len(block_log) :
        /\ i < j
        /\ block_log[i].exit = "RuntimeError"
        /\ block_log[j].exit = "RuntimeError"
        /\ block_log[i].previous = block_log[j].entered

\* C2 as stated: interpret never ends with a Return, whatever the
\* statements.
C2_ReturnNeverSurfaces == interp_result.kind # "Return"

\* C2: interpret never ends with a Return on statements the resolver has
\* accepted: every Return is raised in a function's body and ends at the
\* call.
C2_ReturnNeverSurfacesWhenResolved ==
    resolve_result.kind = "Ok" => interp_result.kind # "Return"

C2_Witness ==
    /\ resolve_result.kind = "Ok"
    /\ interp_result.kind = "Ok"
    /\ \E i \in 1..Len(block_log) : block_log[i].exit = "Return"

(***************************************************************************)
(* parser.rs.  A parser state p is [tokens, pos, kind, value, cause]:      *)
(* tokens.peek() is tokens[pos], None past the last token; kind is "Ok"    *)
(* with the value of the production, "Err" with the cause returned, or     *)
(* "Panic" where the code unwraps a None.                                  *)
(***************************************************************************)
NoCause == [line |-> 0, lexeme |-> <<>>, message |-> ""]

\* Parser::new(tokens).
ParserNew(toks) ==
    [tokens |-> toks, pos |-> 1, kind |-> "Ok", value |-> <<>>, cause |-> NoCause]

\* tokens.peek() is None.
peek_is_none(p) == p.pos > Len(p.tokens)

peek(p) == p.tokens[p.pos]

\* tokens.next(): the iterator moves past one token.
next(p) == [p EXCEPT !.pos = @ + 1]

\* peek() is a token of this kind, of one of these kinds.
is_type(p, tag) == ~peek_is_none(p) /\ peek(p).token_type.tag = tag

is_any(p, tags) == ~peek_is_none(p) /\ peek(p).token_type.tag \in tags

\* Ok(value).
Parsed(p, value) == [p EXCEPT !.kind = "Ok", !.value = value]

\* Err(ParseErrorCause::new(t.line, Some(t.lexeme), message)).
Failed(p, t, message) ==
    [p EXCEPT !.kind = "Err",
              !.cause = [line |-> t.line, lexeme |-> t.lexeme, message |-> message]]

\* None.unwrap().
Unwrapped(p) == [p EXCEPT !.kind = "Panic"]

\* let t = tokens.peek().unwrap();
PeekUnwrap(p, Continue(_)) == IF peek_is_none(p) THEN Unwrapped(p) ELSE Continue(peek(p))

\* if peek().unwrap() is of this kind { tokens.next(); } else { return Err }
Expect(p, tag, message, Continue(_)) ==
    PeekUnwrap(p, LAMBDA t :
        IF t.token_type.tag = tag THEN Continue(next(p)) ELSE Failed(p, t, message))

\* let name = an Identifier at peek(), consumed; else return Err.
ExpectIdentifier(p, message, Continue(_, _)) ==
    PeekUnwrap(p, LAMBDA t :
        IF t.token_type.tag = "Identifier" THEN Continue(next(p), t)
        ELSE Failed(p, t, message))

RECURSIVE Pow10(_)
Pow10(n) == IF n = 0 THEN 1 ELSE 10 * Pow10(n - 1)

\* The f64 of a Number token as a fraction.
f64_of(num) ==
    Normalize(num.int * Pow10(Len(num.frac)) + DigitsValue(num.frac), Pow10(Len(num.frac)))

\* The caps on parameter and argument lists.
MaxParameters == 255

MaxArguments == 255

RECURSIVE declaration(_), class_declaration(_), class_methods(_, _),
          var_declaration(_), statement(_), while_statement(_),
          for_statement(_), if_statement(_), print_statement(_),
          return_statement(_), expression_statement(_), function(_, _),
          block(_), block_statements(_, _),
          expression(_), conditional(_), assignment(_), logic_or(_),
          logic_or_loop(_), logic_and(_), logic_and_loop(_), equality(_),
          equality_loop(_), comparison(_), comparison_loop(_), term(_),
          term_loop(_), factor(_), factor_loop(_), unary(_), parse_call(_),
          call_loop(_), finish_call(_, _), arguments_loop(_, _), primary(_),
          operand(_, _)

primary(p) ==
    PeekUnwrap(p, LAMBDA t : Let(next(p), LAMBDA q :
        CASE t.token_type.tag = "False" -> Parsed(q, LiteralExpr(Boolean(FALSE)))
          [] t.token_type.tag = "True" -> Parsed(q, LiteralExpr(Boolean(TRUE)))
          [] t.token_type.tag = "Nil" -> Parsed(q, LiteralExpr(Nil))
          [] t.token_type.tag = "String" ->
                Parsed(q, LiteralExpr(StringValue(t.token_type.text)))
          [] t.token_type.tag = "Number" ->
                Parsed(q, LiteralExpr(NumberValue(f64_of(t.token_type.num))))
          [] t.token_type.tag = "This" -> Parsed(q, ThisExpr(t.line))
          [] t.token_type.tag = "Super" ->
                Expect(q, "Dot", "Expect '.' after 'super'.", LAMBDA d :
                ExpectIdentifier(d, "Expect superclass method name.", LAMBDA e, method :
                Parsed(e, SuperExpr(t.line, method.lexeme))))
          [] t.token_type.tag = "LeftParen" ->
                Try(expression(q), LAMBDA e :
                Expect(e, "RightParen", "Expect ')' after expression", LAMBDA r :
                Parsed(r, GroupingExpr(e.value))))
          [] t.token_type.tag = "Identifier" -> Parsed(q, VariableExpr(t.lexeme, t.line))
          [] OTHER -> Failed(q, t, "Expect expression.")))

\* The loop of finish_call after the first argument.
arguments_loop(p, arguments) ==
    IF is_type(p, "Comma")
    THEN Let(next(p), LAMBDA q :
         IF Len(arguments) >= MaxArguments
         THEN PeekUnwrap(q, LAMBDA t :
                  Failed(next(q), t, "Can't have more than 255 arguments."))
         ELSE Try(expression(q), LAMBDA e :
                  arguments_loop(e, Append(arguments, e.value))))
    ELSE Parsed(p, arguments)

finish_call(p, callee) ==
    PeekUnwrap(p, LAMBDA t :
    Try(IF t.token_type.tag # "RightParen"
        THEN Try(expression(p), LAMBDA e : arguments_loop(e, <<e.value>>))
        ELSE Parsed(p, <<>>),
        LAMBDA a :
    Expect(a, "RightParen", "Expect ')' after arguments.", LAMBDA r :
    Parsed(r, CallExpr(callee, a.value)))))

\* The loop of call; p.value is expr.
call_loop(p) ==
    PeekUnwrap(p, LAMBDA t :
        CASE t.token_type.tag = "LeftParen" ->
                Try(finish_call(next(p), p.value), LAMBDA e : call_loop(e))
          [] t.token_type.tag = "Dot" ->
                ExpectIdentifier(next(p), "Expect property name after '.'.", LAMBDA q, name :
                call_loop(Parsed(q, GetExpr(p.value, name.lexeme))))
          [] OTHER -> p)

\* Parser::call.
parse_call(p) == Try(primary(p), LAMBDA e : call_loop(e))

unary(p) ==
    IF is_any(p, {"Bang", "Minus"})
    THEN Try(unary(next(p)), LAMBDA r :
             Parsed(r, UnaryExpr(peek(p).token_type.tag, r.value)))
    ELSE parse_call(p)

\* The operand of a binary production: the production of the next level.
operand(production, p) ==
    CASE production = "logic_and" -> logic_and(p)
      [] production = "equality" -> equality(p)
      [] production = "comparison" -> comparison(p)
      [] production = "term" -> term(p)
      [] production = "factor" -> factor(p)
      [] production = "unary" -> unary(p)

\* The loops of the binary productions; p.value is expr.
factor_loop(p) ==
    IF is_any(p, {"Slash", "Star"})
    THEN Try(operand("unary", next(p)), LAMBDA r :
             factor_loop(Parsed(r, BinaryExpr(p.value, peek(p).token_type.tag, r.value))))
    ELSE p

factor(p) == Try(operand("unary", p), LAMBDA e : factor_loop(e))

\* A term whose operators group to the right.
RECURSIVE term_loop_right(_)
term_loop_right(p) ==
    IF is_any(p, {"Minus", "Plus"})
    THEN Try(operand("factor", next(p)), LAMBDA r :
         Try(term_loop_right(r), LAMBDA rest :
             Parsed(rest, BinaryExpr(p.value, peek(p).token_type.tag, rest.value))))
    ELSE p

term_loop(p) ==
    IF is_any(p, {"Minus", "Plus"})
    THEN Try(operand("factor", next(p)), LAMBDA r :
             term_loop(Parsed(r, BinaryExpr(p.value, peek(p).token_type.tag, r.value))))
    ELSE p

term(p) == Try(operand("factor", p), LAMBDA e : term_loop(e))

comparison_loop(p) ==
    IF is_any(p, {"Greater", "GreaterEqual", "Less", "LessEqual"})
    THEN Try(operand("term", next(p)), LAMBDA r :
             comparison_loop(Parsed(r, BinaryExpr(p.value, peek(p).token_type.tag, r.value))))
    ELSE p

comparison(p) == Try(operand("term", p), LAMBDA e : comparison_loop(e))

equality_loop(p) ==
    IF is_any(p, {"BangEqual", "EqualEqual"})
    THEN Try(operand("comparison", next(p)), LAMBDA r :
             equality_loop(Parsed(r, BinaryExpr(p.value, peek(p).token_type.tag, r.value))))
    ELSE p

equality(p) == Try(operand("comparison", p), LAMBDA e : equality_loop(e))

logic_and_loop(p) ==
    IF is_type(p, "And")
    THEN Try(operand("equality", next(p)), LAMBDA r :
             logic_and_loop(Parsed(r, LogicalExpr(p.value, "And", r.value))))
    ELSE p

logic_and(p) == Try(operand("equality", p), LAMBDA e : logic_and_loop(e))

logic_or_loop(p) ==
    IF is_type(p, "Or")
    THEN Try(operand("logic_and", next(p)), LAMBDA r :
             logic_or_loop(Parsed(r, LogicalExpr(p.value, "Or", r.value))))
    ELSE p

logic_or(p) == Try(operand("logic_and", p), LAMBDA e : logic_or_loop(e))

\* A left side that is a Variable gives an Assign and one that is a Get a
\* Set; for any other the cause is returned as an Err.
assignment(p) ==
    Try(logic_or(p), LAMBDA e :
        IF is_type(e, "Equal")
        THEN Try(assignment(next(e)), LAMBDA v :
                 CASE e.value[1] = "Variable" ->
                        Parsed(v, AssignExpr(e.value[2], e.value[3], v.value))
                   [] e.value[1] = "Get" ->
                        Parsed(v, SetExpr(e.value[2], e.value[3], v.value))
                   [] OTHER -> Failed(v, peek(e), "Invalid assignment target."))
        ELSE e)

conditional(p) ==
    Try(assignment(p), LAMBDA c :
        IF is_type(c, "QuestionMark")
        THEN Try(expression(next(c)), LAMBDA l :
             Expect(l, "Colon", "Expect ':' after truthy expression", LAMBDA q :
             Try(conditional(q), LAMBDA r :
             Parsed(r, ConditionalExpr(c.value, l.value, r.value)))))
        ELSE c)

expression(p) == conditional(p)

\* The loop of block: declarations up to a '}' or Eof.
block_statements(p, stmts) ==
    IF peek_is_none(p) \/ is_any(p, {"RightBrace", "Eof"}) THEN Parsed(p, stmts)
    ELSE Try(declaration(p), LAMBDA d : block_statements(d, Append(stmts, d.value)))

block(p) ==
    Try(block_statements(p, <<>>), LAMBDA b :
    Expect(b, "RightBrace", "Expect '}' after block.", LAMBDA q :
    Parsed(q, b.value)))

\* function's parameter loop.  first is the token peeked before the loop: the
\* loop tests it again in every turn, and takes whatever token comes next as
\* the parameter.  Turn j takes the token at pos + 2 * (j - 1) and peeks at
\* the one after it; the loop ends in the first turn that finds no token to
\* take, 255 parameters pushed, no token to peek at, or no comma.
TurnEnds(p, j) ==
    \/ p.pos + 2 * (j - 1) > Len(p.tokens)
    \/ j > MaxParameters
    \/ p.pos + 2 * j - 1 > Len(p.tokens)
    \/ p.tokens[p.pos + 2 * j - 1].token_type.tag # "Comma"

LastTurn(p) ==
    CHOOSE j \in 1..(Len(p.tokens) + 1) :
        TurnEnds(p, j) /\ \A k \in 1..(j - 1) : ~TurnEnds(p, k)

parameters(p, first) ==
    IF first.token_type.tag # "Identifier"
    THEN Failed(p, first, "Expect parameter name.")
    ELSE Let(LastTurn(p), LAMBDA last :
         Let([p EXCEPT !.pos = @ + 2 * (last - 1)], LAMBDA q :
         IF peek_is_none(q) THEN Unwrapped(q)
         ELSE IF last > MaxParameters
              THEN Failed(next(q), peek(q), "Can't have more than 255 parameters.")
         ELSE IF peek_is_none(next(q)) THEN Unwrapped(next(q))
         ELSE Parsed(next(q),
                     [j \in 1..last |-> p.tokens[p.pos + 2 * (j - 1)].lexeme])))

function(p, kind) ==
    ExpectIdentifier(p, "Expect " \o kind \o " name.", LAMBDA n, name :
    Expect(n, "LeftParen", "Expect '(' after " \o kind \o " name.", LAMBDA l :
    PeekUnwrap(l, LAMBDA first :
    Try(IF first.token_type.tag # "RightParen" THEN parameters(l, first)
        ELSE Parsed(l, <<>>),
        LAMBDA params :
    Expect(params, "RightParen", "Expect ')' after parameters.", LAMBDA r :
    Expect(r, "LeftBrace", "Expect '{' before " \o kind \o " body.", LAMBDA b :
    Try(block(b), LAMBDA body :
    Parsed(body, FunctionStmt(name.lexeme, params.value, body.value)))))))))

expression_statement(p) ==
    Try(expression(p), LAMBDA e :
    Expect(e, "Semicolon", "Expect ';' after expression.", LAMBDA q :
    Parsed(q, ExpressionStmt(e.value))))

\* p is at the keyword.
return_statement(p) ==
    PeekUnwrap(next(p), LAMBDA t :
    Try(IF t.token_type.tag # "Semicolon"
        THEN Try(expression(next(p)), LAMBDA e : Parsed(e, <<e.value>>))
        ELSE Parsed(next(p), <<>>),
        LAMBDA value :
    Expect(value, "Semicolon", "Expect ';' after return value.", LAMBDA q :
    Parsed(q, ReturnStmt(value.value)))))

print_statement(p) ==
    Try(expression(p), LAMBDA e :
    Expect(e, "Semicolon", "Expect ';' after expression", LAMBDA q :
    Parsed(q, PrintStmt(e.value))))

if_statement(p) ==
    Expect(p, "LeftParen", "Expect '(' after if.", LAMBDA l :
    Try(expression(l), LAMBDA condition :
    Expect(condition, "RightParen", "Expect ')' after if condition.", LAMBDA r :
    Try(statement(r), LAMBDA then_branch :
    Try(IF is_type(then_branch, "Else")
        THEN Try(statement(next(then_branch)), LAMBDA e : Parsed(e, <<e.value>>))
        ELSE Parsed(then_branch, <<>>),
        LAMBDA else_branch :
    Parsed(else_branch,
           IfStmt(condition.value, then_branch.value, else_branch.value)))))))

\* A for loop whose increment runs before the body.
desugar_for_increment_first(initializer, condition, increment, body) ==
    Let(IF increment # <<>>
        THEN BlockStmt(<<ExpressionStmt(increment[1]), body>>)
        ELSE body, LAMBDA looped :
    Let(WhileStmt(condition, looped), LAMBDA loop :
    IF initializer # <<>> THEN BlockStmt(<<initializer[1], loop>>) ELSE loop))

\* The end of for_statement: the increment, when there is one, is an
\* Expression statement after the body in a Block; the loop is a While; the
\* initializer, when there is one, is in a Block before the loop.
desugar_for(initializer, condition, increment, body) ==
    Let(IF increment # <<>>
        THEN BlockStmt(<<body, ExpressionStmt(increment[1])>>)
        ELSE body, LAMBDA looped :
    Let(WhileStmt(condition, looped), LAMBDA loop :
    IF initializer # <<>> THEN BlockStmt(<<initializer[1], loop>>) ELSE loop))

\* A missing condition is the literal true.
for_statement(p) ==
    Expect(p, "LeftParen", "Expect '(' after 'for'.", LAMBDA l :
    PeekUnwrap(l, LAMBDA t :
    Try(CASE t.token_type.tag = "Semicolon" -> Parsed(next(l), <<>>)
          [] t.token_type.tag = "Var" ->
                Try(var_declaration(next(l)), LAMBDA d : Parsed(d, <<d.value>>))
          [] OTHER -> Try(expression_statement(l), LAMBDA d : Parsed(d, <<d.value>>)),
        LAMBDA initializer :
    PeekUnwrap(initializer, LAMBDA c :
    Try(IF c.token_type.tag # "Semicolon" THEN expression(initializer)
        ELSE Parsed(initializer, LiteralExpr(Boolean(TRUE))),
        LAMBDA condition :
    Expect(condition, "Semicolon", "Expect ';' after loop condition.", LAMBDA s :
    PeekUnwrap(s, LAMBDA i :
    Try(IF i.token_type.tag # "RightParen"
        THEN Try(expression(s), LAMBDA e : Parsed(e, <<e.value>>))
        ELSE Parsed(s, <<>>),
        LAMBDA increment :
    Expect(increment, "RightParen", "Expect ')' after for clauses.", LAMBDA r :
    Try(statement(r), LAMBDA body :
    Parsed(body, desugar_for(initializer.value, condition.value,
                             increment.value, body.value))))))))))))

while_statement(p) ==
    Expect(p, "LeftParen", "Expect '(' after 'while'.", LAMBDA l :
    Try(expression(l), LAMBDA condition :
    Expect(condition, "RightParen", "Expect ')' after condition.", LAMBDA r :
    Try(statement(r), LAMBDA body :
    Parsed(body, WhileStmt(condition.value, body.value))))))

statement(p) ==
    PeekUnwrap(p, LAMBDA t :
        CASE t.token_type.tag = "If" -> if_statement(next(p))
          [] t.token_type.tag = "Print" -> print_statement(next(p))
          [] t.token_type.tag = "Return" -> return_statement(p)
          [] t.token_type.tag = "While" -> while_statement(next(p))
          [] t.token_type.tag = "For" -> for_statement(next(p))
          [] t.token_type.tag = "LeftBrace" ->
                Try(block(next(p)), LAMBDA s : Parsed(s, BlockStmt(s.value)))
          [] OTHER -> expression_statement(p))

var_declaration(p) ==
    ExpectIdentifier(p, "Expect variable name.", LAMBDA n, name :
    PeekUnwrap(n, LAMBDA t :
    Try(IF t.token_type.tag = "Equal"
        THEN Try(expression(next(n)), LAMBDA e : Parsed(e, <<e.value>>))
        ELSE Parsed(n, <<>>),
        LAMBDA initializer :
    Expect(initializer, "Semicolon", "Expect ';' after variable declaration.", LAMBDA q :
    Parsed(q, VarStmt(name.lexeme, initializer.value))))))

\* The loop of class_declaration: methods up to a '}' or Eof.
class_methods(p, methods) ==
    IF peek_is_none(p) \/ is_any(p, {"RightBrace", "Eof"}) THEN Parsed(p, methods)
    ELSE Try(function(p, "method"), LAMBDA f : class_methods(f, Append(methods, f.value)))

class_declaration(p) ==
    ExpectIdentifier(p, "Expect class name.", LAMBDA n, name :
    Try(IF is_type(n, "Less")
        THEN ExpectIdentifier(next(n), "Expect superclass name.", LAMBDA s, super :
                 Parsed(s, <<VariableExpr(super.lexeme, super.line)>>))
        ELSE Parsed(n, <<>>),
        LAMBDA superclass :
    Try(IF peek_is_none(superclass) THEN superclass
        ELSE Expect(superclass, "LeftBrace", "Expect '{' before class body.",
                    LAMBDA b : b),
        LAMBDA opened :
    Try(class_methods(opened, <<>>), LAMBDA methods :
    Try(IF peek_is_none(methods) THEN methods
        ELSE Expect(methods, "RightBrace", "Expect '}' after class body.",
                    LAMBDA b : b),
        LAMBDA closed :
    Parsed(closed, ClassStmt(name.lexeme, superclass.value, methods.value)))))))

\* A declaration that leaves the keyword var to var_declaration.
declaration_at_var(p) ==
    CASE is_type(p, "Var") -> var_declaration(p)
      [] is_type(p, "Fun") -> function(next(p), "function")
      [] is_type(p, "Class") -> class_declaration(next(p))
      [] OTHER -> statement(p)

declaration(p) ==
    CASE is_type(p, "Var") -> var_declaration(next(p))
      [] is_type(p, "Fun") -> function(next(p), "function")
      [] is_type(p, "Class") -> class_declaration(next(p))
      [] OTHER -> statement(p)

\* A sync that stops at Eof only.
RECURSIVE sync_up_to_eof(_)
sync_up_to_eof(p) ==
    IF peek_is_none(p) \/ is_type(p, "Eof") THEN p
    ELSE sync_up_to_eof(next(p))

\* sync: tokens are passed over up to Eof or a keyword that starts a
\* statement.
RECURSIVE sync(_)
sync(p) ==
    IF peek_is_none(p) \/ is_type(p, "Eof") THEN p
    ELSE IF is_any(p, {"Class", "Fun", "Var", "For", "If", "While", "Print", "Return"})
         THEN p
         ELSE sync(next(p))

Parser == [ParserNew(parse_input) EXCEPT !.pos = parse_pos]

\* A parse that hands back the statements whatever was recorded.
ParseOutcomeAlwaysOk(stmts, errs) ==
    [kind |-> "Ok", statements |-> stmts, causes |-> <<>>]

\* What parse returns for the statements and the errors it ends with.
ParseOutcome(stmts, errs) ==
    IF errs = <<>>
    THEN [kind |-> "Ok", statements |-> stmts, causes |-> <<>>]
    ELSE [kind |-> "ParseError", statements |-> <<>>, causes |-> errs]

\* One turn of parse's loop: a declaration is pushed, or its cause is pushed
\* and sync runs.  A panic ends parse without a result.
ParseDeclaration ==
    /\ parse_result.kind = "None"
    /\ ~peek_is_none(Parser)
    /\ ~is_type(Parser, "Eof")
    /\ \E d \in {declaration(Parser)} :
       \E s \in {IF d.kind = "Err" THEN sync(d) ELSE d} :
         /\ parse_pos' = s.pos
         /\ parse_statements' =
                IF d.kind = "Ok" THEN Append(parse_statements, d.value)
                ELSE parse_statements
         /\ parse_errors' =
                IF d.kind = "Err" THEN Append(parse_errors, d.cause) ELSE parse_errors
         /\ parse_result' =
                IF d.kind = "Panic"
                THEN [kind |-> "Panic", statements |-> <<>>, causes |-> <<>>]
                ELSE parse_result
         /\ parse_log' =
                Append(parse_log,
                       [from |-> parse_pos, kind |-> d.kind,
                        value |-> IF d.kind = "Ok" THEN d.value ELSE <<>>,
                        cause |-> d.cause, to |-> d.pos, synced |-> s.pos])
    /\ UNCHANGED <<parse_input, scanVars, tokenVars, runVars>>

\* The end of parse's loop: peek() is Eof or None.
ParseReturn ==
    /\ parse_result.kind = "None"
    /\ peek_is_none(Parser) \/ is_type(Parser, "Eof")
    /\ parse_result' = ParseOutcome(parse_statements, parse_errors)
    /\ UNCHANGED <<parse_input, parse_pos, parse_statements, parse_errors, parse_log,
                   scanVars, tokenVars, runVars>>

NextParse == ParseDeclaration \/ ParseReturn

\* The token the scanner makes of a word on line ln; a keyword is written
\* as its tag.
KeywordTags == {k[2] : k \in keywords}

Word(w, ln) ==
    CASE w \in KeywordTags ->
            Token(TokenType(w), (CHOOSE k \in keywords : k[2] = w)[1], ln)
      [] w \in {"a", "b", "c", "d", "e", "f", "i"} -> Token(Identifier(<<w>>), <<w>>, ln)
      [] w \in Digits -> Token(Number(parse_f64(<<w>>)), <<w>>, ln)
      [] w = "/" -> Token(TokenType("Slash"), <<w>>, ln)
      [] w = "==" -> Token(TokenType("EqualEqual"), <<"=", "=">>, ln)
      [] w = "!=" -> Token(TokenType("BangEqual"), <<"!", "=">>, ln)
      [] w = "<=" -> Token(TokenType("LessEqual"), <<"<", "=">>, ln)
      [] w = ">=" -> Token(TokenType("GreaterEqual"), <<">", "=">>, ln)
      [] w \in {"!", "=", "<", ">"} -> Token(TokenType(OneOrTwoTag(w, FALSE)), <<w>>, ln)
      [] OTHER -> Token(TokenType(SingleCharTag(w)), <<w>>, ln)

\* The tokens of phrases, the i-th phrase on line i, and Eof.
RECURSIVE Flatten(_)
Flatten(seqs) == IF seqs = <<>> THEN <<>> ELSE Head(seqs) \o Flatten(Tail(seqs))

TokensOf(phrases) ==
    Flatten([i \in 1..Len(phrases) |->
                [j \in 1..Len(phrases[i]) |-> Word(phrases[i][j], i)]])
    \o <<Token(TokenType("Eof"), <<>>, Len(phrases) + 1)>>

\* Declarations that parse and declarations that fail.
MaxDecls == 2

Declarations ==
    { <<"Print", "1", ";">>,
      <<"Var", "a", "=", "1", ";">>,
      <<"a", "=", "1", ";">>,
      <<"a", ".", "b", "=", "1", ";">>,
      <<"1", "=", "2", ";", "c", ";">>,
      <<"(", "a", ")", "=", "1", ";">>,
      <<"{", "a", "+", "b", "=", "c", ";", "}">>,
      <<"Print", ";">>,
      <<"c", "(", "1", ";">>,
      <<"Fun", "f", "(", "a", ",">>,
      <<"Class", "a", "<", "b", "{", "f", "(", ")", "{", "Return", "This", ".", "c", ";", "}", "}">> }

\* n words w with a comma between two of them.
List(w, n) == [i \in 1..(IF n = 0 THEN 0 ELSE 2 * n - 1) |-> IF i % 2 = 1 THEN w ELSE ","]

\* Parameter lists up to the cap and one past it; argument lists of a few
\* expressions.
ParameterCounts == {0, 1, 2, MaxParameters, MaxParameters + 1}

ArgumentCounts == {0, 1, 2, 3}

Lists ==
    {<<"Fun", "f", "(">> \o List("a", n) \o <<")", "{", "}">> : n \in ParameterCounts}
    \cup {<<"f", "(">> \o List("1", n) \o <<")", ";">> : n \in ArgumentCounts}

\* The for statements: each clause there or missing.
ForInitializers == {<<";">>, <<"Var", "i", "=", "0", ";">>, <<"i", "=", "0", ";">>}

ForConditions == {<<>>, <<"i", "<", "2">>}

ForIncrements == {<<>>, <<"i", "=", "i", "+", "1">>}

ForBodies == {<<"Print", "i", ";">>, <<"{", "Print", "i", ";", "}">>}

Fors ==
    {<<"For", "(">> \o init \o cond \o <<";">> \o inc \o <<")">> \o body :
        init \in ForInitializers, cond \in ForConditions,
        inc \in ForIncrements, body \in ForBodies}

\* Two operators in a row.
BinaryWords == {"Or", "And", "==", "!=", ">", ">=", "<", "<=", "-", "+", "/", "*"}

Chains ==
    {<<"a", op1, "b", op2, "c", ";">> : op1, op2 \in BinaryWords}
    \cup { <<"a", "=", "b", "=", "c", ";">>,
           <<"a", "?", "b", ":", "c", "?", "d", ":", "e", ";">>,
           <<"1", "+", "2", "*", "3", ";">>,
           <<"a", "=", "b", "?", "c", ":", "d", ";">> }

\* Declarations that fail next to a keyword, in a parameter list, or where
\* the tokens end: inside a parameter list, an argument list, a class body,
\* a block or an expression.
Malformed ==
    { <<"Print", "1", "Var", "a", "=", "1", ";">>,
      <<"Print", "Var", "a", "=", "1", ";">>,
      <<"c", "(", "1", ";", "2", ")", "Print", "1", ";">>,
      <<"1", "2", "3", "While", "(", "a", ")", "b", ";">>,
      <<"Fun", "f", "(", "a", ",", "1", ")", "{", "}">>,
      <<"Fun", "f", "(", "a", ",", "b", ",", "Print", ")", "{", "}">>,
      <<"Fun", "f", "(", "1", ")", "{", "}">>,
      <<"Fun", "f", "(", "a", ",", ")", "{", "}">>,
      <<"Class", "a", "{", "f", "(", "a", ",", "1", ")", "{", "}", "}">>,
      <<"Class", "a", "{", "f", "(", "1", ")", "{", "}", "}">>,
      <<"Fun", "f", "(">>,
      <<"Fun", "f", "(", "a">>,
      <<"c", "(">>,
      <<"c", "(", "1", ",">>,
      <<"Class", "a", "{">>,
      <<"Class", "a", "{", "f", "(", "a", ",">>,
      <<"{", "Print", "1", ";">>,
      <<"1", "+">>,
      <<"(", "1">>,
      <<"a", ".">>,
      <<"Print">>,
      <<"Var">> }

Programs ==
    Texts(Declarations, MaxDecls)
    \cup {<<s, <<"Print", "1", ";">>>> : s \in Lists \cup Fors \cup Chains}
    \cup {<<s>> : s \in Malformed}
    \cup {<<s, <<"Print", "1", ";">>>> : s \in Malformed}

InitParse ==
    /\ \E phrases \in Programs : parse_input = TokensOf(phrases)
    /\ parse_pos = 1
    /\ parse_statements = <<>>
    /\ parse_errors = <<>>
    /\ parse_result = [kind |-> "None", statements |-> <<>>, causes |-> <<>>]
    /\ parse_log = <<>>
    /\ ScanIdle
    /\ TokenIdle
    /\ RunIdle

SpecParse == InitParse /\ [][NextParse]_vars

(***************************************************************************)
(* Properties of the resolver's checks, on the history of the pass.        *)
(***************************************************************************)
Events(what) == {i \in DOMAIN resolve_trace : resolve_trace[i].what = what}

\* The event is inside a block or a function body of the program text.
IsLocal(e) == ScopeFrames(e.path) # {}

\* The event is in the initializer of a Var statement of its own name.
InInitializerOf(e) ==
    /\ e.path # <<>>
    /\ e.path[Len(e.path)].kind = "Initializer"
    /\ e.path[Len(e.path)].name = e.name

OwnInitializerMessage == "Can't read local variable in its own initializer"

\* C16: a Variable expression is rejected with "Can't read local variable in
\* its own initializer" exactly when it stands in the initializer of a Var
\* statement of its own name that is inside a block or a function body; a
\* name declared at global level or only in an outer scope is read without
\* that error, and the pass returns that error only for such an expression.
C16_OwnInitializer ==
    /\ \A i \in Events("Variable") :
           resolve_trace[i].rejected <=>
               (InInitializerOf(resolve_trace[i]) /\ IsLocal(resolve_trace[i]))
    /\ \A i \in Events("Variable") :
           resolve_trace[i].rejected =>
               /\ i = Len(resolve_trace)
               /\ resolve_result = [kind |-> "Err", message |-> OwnInitializerMessage]
    /\ resolve_result.message = OwnInitializerMessage =>
           \E i \in Events("Variable") : resolve_trace[i].rejected

\* A block declares a, and an inner block's var a = a + 1 is rejected.
C16_Witness ==
    /\ resolve_result = [kind |-> "Err", message |-> OwnInitializerMessage]
    /\ \E i \in Events("Variable") :
           /\ resolve_trace[i].rejected
           /\ InInitializerOf(resolve_trace[i])
           /\ \E j \in ScopeFrames(resolve_trace[i].path) :
                  /\ j # Innermost(resolve_trace[i].path)
                  /\ resolve_trace[i].name \in resolve_trace[i].path[j].names

\* var a = a + 1 at global level is accepted.
C16_GlobalAccepted ==
    \E i \in Events("Variable") :
        /\ ~resolve_trace[i].rejected
        /\ InInitializerOf(resolve_trace[i])
        /\ ~IsLocal(resolve_trace[i])

\* A name declared only in an outer scope is read in an inner one.
C16_OuterAccepted ==
    \E i \in Events("Variable") :
        /\ ~resolve_trace[i].rejected
        /\ IsLocal(resolve_trace[i])
        /\ resolve_trace[i].name \notin resolve_trace[i].path[Innermost(resolve_trace[i].path)].names
        /\ \E j \in ScopeFrames(resolve_trace[i].path) :
               resolve_trace[i].name \in resolve_trace[i].path[j].names

ExistsMessage == "Variable with this name already exists in this scope."

\* The name of the event is declared directly in the innermost block or
\* function body the event is in.
InInnermostScope(e) == IsLocal(e) /\ e.name \in e.path[Innermost(e.path)].names

\* C17: declaring a name, by var, by fun or as a parameter, is rejected with
\* "Variable with this name already exists in this scope." exactly when the
\* innermost block or function body around the declaration has declared the
\* name already; at global level a name is declared again without error,
\* and so is a name that only an outer scope has.
C17_DeclareTwice ==
    /\ \A i \in Events("Declare") :
           resolve_trace[i].rejected <=> InInnermostScope(resolve_trace[i])
    /\ \A i \in Events("Declare") :
           resolve_trace[i].rejected =>
               /\ i = Len(resolve_trace)
               /\ resolve_result = [kind |-> "Err", message |-> ExistsMessage]
    /\ resolve_result.message = ExistsMessage =>
           \E i \in Events("Declare") : resolve_trace[i].rejected

\* The second parameter a of fun g(a, a) is rejected.
C17_Witness ==
    /\ resolve_result = [kind |-> "Err", message |-> ExistsMessage]
    /\ \E i \in Events("Declare") :
           /\ resolve_trace[i].rejected
           /\ resolve_trace[i].as = "param"
           /\ resolve_trace[i].path[Len(resolve_trace[i].path)].kind = "Function"

\* A var and a fun of a name the block has are rejected.
C17_VarAndFunRejected ==
    \E i, j \in Events("Declare") :
        /\ resolve_trace[i].as = "var" /\ resolve_trace[j].as \in {"var", "fun"}
        /\ i < j
        /\ resolve_trace[i].name = resolve_trace[j].name
        /\ resolve_trace[j].rejected

\* The same name is declared twice at global level, and resolving succeeds.
C17_GlobalTwice ==
    /\ resolve_result.kind = "Ok"
    /\ \E i, j \in Events("Declare") :
           /\ i < j
           /\ resolve_trace[i].name = resolve_trace[j].name
           /\ resolve_trace[i].path = <<>> /\ resolve_trace[j].path = <<>>

\* A name that an outer scope has is declared in an inner one.
C17_Shadowing ==
    \E i \in Events("Declare") :
        /\ ~resolve_trace[i].rejected
        /\ IsLocal(resolve_trace[i])
        /\ \E j \in ScopeFrames(resolve_trace[i].path) :
               resolve_trace[i].name \in resolve_trace[i].path[j].names

TopLevelMessage == "Cannot return from top-level code"

\* The event is inside the body of a function of the program text.
InFunction(e) == \E j \in DOMAIN e.path : e.path[j].kind = "Function"

\* C18: a Return statement is rejected with "Cannot return from top-level
\* code" exactly when no function body of the program text is around it:
\* at top level and in a block, an if or a while of the top level, also
\* after a function declaration that has ended, and nowhere inside a
\* function body.
C18_ReturnOutsideFunction ==
    /\ \A i \in Events("Return") :
           resolve_trace[i].rejected <=> ~InFunction(resolve_trace[i])
    /\ \A i \in Events("Return") :
           resolve_trace[i].rejected =>
               /\ i = Len(resolve_trace)
               /\ resolve_result = [kind |-> "Err", message |-> TopLevelMessage]
    /\ resolve_result.message = TopLevelMessage =>
           \E i \in Events("Return") : resolve_trace[i].rejected

\* A function declaration has ended, and a return after it is rejected.
C18_Witness ==
    /\ resolve_result = [kind |-> "Err", message |-> TopLevelMessage]
    /\ \E i \in Events("Return"), j \in Events("Declare") :
           /\ j < i
           /\ resolve_trace[j].as = "fun"
           /\ resolve_trace[i].rejected
           /\ ~InFunction(resolve_trace[i])

\* A return in a block, an if and a while of the top level is rejected.
C18_NestedRejected ==
    \E i \in Events("Return") :
        /\ resolve_trace[i].rejected
        /\ {resolve_trace[i].path[j].kind : j \in DOMAIN resolve_trace[i].path}
               \in {{"Block", "If"}, {"Block", "While"}}

\* A return in a block in a while in a function body is accepted.
C18_NestedAccepted ==
    \E i \in Events("Return") :
        /\ ~resolve_trace[i].rejected
        /\ Len(resolve_trace[i].path) > 2
        /\ resolve_trace[i].path[1].kind = "Function"
        /\ resolve_trace[i].path[Len(resolve_trace[i].path)].kind = "Block"

\* The program is one class declaration.
IsClassProgram == Len(program) = 1 /\ program[1][1] = "Class"

\* A method init of the class has a return with a value in its body.
ReturnsValueInInit(class) ==
    \E i \in DOMAIN class[4] :
        /\ class[4][i][2] = "init"
        /\ \E k \in DOMAIN class[4][i][4] :
               class[4][i][4][k][1] = "Return" /\ class[4][i][4][k][2] # <<>>

\* C19: resolving a class declaration ends with a resolve error when its
\* init method returns a value, and succeeds when init has a bare return or
\* another method returns a value.
C19_InitializerReturn ==
    (IsClassProgram /\ resolve_result.kind # "None") =>
        IF ReturnsValueInInit(program[1])
        THEN resolve_result.kind = "Err"
        ELSE resolve_result.kind = "Ok"

(***************************************************************************)
(* Properties of division.                                                 *)
(***************************************************************************)
\* The value the operand at position k of the program's division has.
ValueOf(k) ==
    (CHOOSE o \in LeftOperands \cup RightOperands : o[1] = program[1][3][1][k])[2]

\* What the program's var q = .. gave q, Nil when q is not defined.
Quotient ==
    IF MapHas(heap[GlobalEnv].values, "q") THEN MapGet(heap[GlobalEnv].values, "q") ELSE Nil

C20_QuotientWitness ==
    /\ interp_result.kind = "Ok"
    /\ ValueOf(2) = NumberValue(Num(6, 1))
    /\ ValueOf(4) = NumberValue(Num(-4, 1))
    /\ Quotient = NumberValue(Num(-3, 2))

(***************************************************************************)
(* Properties of the binary operators.                                     *)
(***************************************************************************)
\* The global variable of the name, Nil when it is not defined.
Global(name) ==
    IF MapHas(heap[GlobalEnv].values, name) THEN MapGet(heap[GlobalEnv].values, name) ELSE Nil

IsBinaryProgram == Len(program) = Len(Prelude) + 1

\* The binary expression of the program, and its operands in the table.
TheBinary == program[Len(Prelude) + 1][3][1]

LeftOperand == CHOOSE o \in Values \cup {AppendDigit(1)} : o.expr = TheBinary[2]

RightOperand == CHOOSE o \in Values \cup {AppendDigit(2)} : o.expr = TheBinary[4]

\* What t is after each operand when the left one is evaluated first and
\* each is evaluated once.
AfterLeft == LeftOperand.digit

AfterRight == IF RightOperand.digit = 0 THEN AfterLeft ELSE 10 * AfterLeft + RightOperand.digit

LeftValue ==
    IF LeftOperand.digit = 0 THEN LeftOperand.value ELSE NumberValue(Num(AfterLeft, 1))

RightValue ==
    IF RightOperand.digit = 0 THEN RightOperand.value ELSE NumberValue(Num(AfterRight, 1))

LeftText == IF LeftOperand.digit = 0 THEN LeftOperand.text ELSE NatDigits(AfterLeft)

RightText == IF RightOperand.digit = 0 THEN RightOperand.text ELSE NatDigits(AfterRight)

\* q is the number a / b of integers a and b, a zero of either sign when
\* a is 0.
IsFraction(q, a, b) == q.k = "Number" /\ q.n.den # 0 /\ q.n.num * b = a * Abs(q.n.den)

Raised(message) ==
    /\ interp_result = [kind |-> "RuntimeError", message |-> message]
    /\ ~MapHas(heap[GlobalEnv].values, "q")

\* C21: + gives the sum of two Numbers, the concatenation of two Strings,
\* the String with the Number's text before or after it as the operands
\* stand, and for every other pair of operands the RuntimeError "Operands
\* must be two numbers or two strings.".
C21_Plus ==
    (IsBinaryProgram /\ TheBinary[3] = "Plus" /\ interp_result.kind # "None") =>
        CASE LeftValue.k = "Number" /\ RightValue.k = "Number" ->
                /\ interp_result.kind = "Ok"
                /\ IsFraction(Global("q"),
                              LeftValue.n.num * RightValue.n.den + RightValue.n.num * LeftValue.n.den,
                              LeftValue.n.den * RightValue.n.den)
          [] LeftValue.k = "String" /\ RightValue.k = "String" ->
                /\ interp_result.kind = "Ok"
                /\ Global("q") = StringValue(LeftValue.s \o RightValue.s)
          [] LeftValue.k = "String" /\ RightValue.k = "Number" ->
                /\ interp_result.kind = "Ok"
                /\ Global("q") = StringValue(LeftValue.s \o RightText)
          [] LeftValue.k = "Number" /\ RightValue.k = "String" ->
                /\ interp_result.kind = "Ok"
                /\ Global("q") = StringValue(LeftText \o RightValue.s)
          [] OTHER -> Raised("Operands must be two numbers or two strings.")

\* "s" + 0.5 is "s0.5".
C21_Witness ==
    /\ IsBinaryProgram /\ TheBinary[3] = "Plus"
    /\ LeftValue = StringValue(<<"s">>)
    /\ RightValue = NumberValue(Num(1, 2))
    /\ Global("q") = StringValue(<<"s", "0", ".", "5">>)

\* An instance plus a String is the RuntimeError.
C21_InstanceWitness ==
    /\ IsBinaryProgram /\ TheBinary[3] = "Plus"
    /\ LeftValue.k = "Instance" /\ RightValue.k = "String"
    /\ Global("i").k = "Instance"
    /\ Raised("Operands must be two numbers or two strings.")

IsEqualityProgram == Len(program) = Len(Prelude) + 4

\* The operands a and b of the program's a == b.
OperandA == CHOOSE o \in Values : o.expr = program[Len(Prelude) + 1][3][1][2]

OperandB == CHOOSE o \in Values : o.expr = program[Len(Prelude) + 1][3][1][4]

C22_EqualValues ==
    /\ IsEqualityProgram
    /\ OperandA.expr # OperandB.expr
    /\ Global("q") = Boolean(TRUE) /\ Global("p") = Boolean(TRUE)

NumberOperators == {"Minus", "Star", "Slash", "Greater", "GreaterEqual", "Less", "LessEqual"}

\* What the operator gives for the fractions a and b, whose denominators
\* are positive: q is that value.
IsResult(q, operator, a, b) ==
    CASE operator = "Minus" -> IsFraction(q, a.num * b.den - b.num * a.den, a.den * b.den)
      [] operator = "Star" -> IsFraction(q, a.num * b.num, a.den * b.den)
      [] operator = "Slash" ->
            IsFraction(q, IF b.num < 0 THEN -(a.num * b.den) ELSE a.num * b.den,
                          IF b.num < 0 THEN -(a.den * b.num) ELSE a.den * b.num)
      [] operator = "Greater" -> q = Boolean(a.num * b.den > b.num * a.den)
      [] operator = "GreaterEqual" -> q = Boolean(a.num * b.den >= b.num * a.den)
      [] operator = "Less" -> q = Boolean(a.num * b.den < b.num * a.den)
      [] operator = "LessEqual" -> q = Boolean(a.num * b.den <= b.num * a.den)

C23_Multiplication ==
    /\ IsBinaryProgram
    /\ TheBinary = BinaryExpr(NumberExpr(2, 1), "Star", NumberExpr(8, 1))
    /\ Global("q") = NumberValue(Num(16, 1))

\* (t = t * 10 + 1) < (t = t * 10 + 2) leaves 12 in t and is true, and
\* nil < (t = t * 10 + 2) leaves 2 in t before it fails.
C23_LeftThenRight ==
    /\ IsBinaryProgram /\ TheBinary[3] = "Less"
    /\ RightOperand.digit = 2
    /\ \/ LeftOperand.digit = 1 /\ Global("t") = NumberValue(Num(12, 1))
             /\ Global("q") = Boolean(TRUE)
       \/ LeftValue = Nil /\ Global("t") = NumberValue(Num(2, 1))
             /\ Raised("Operands must be numbers.")

\* The depth resolve_local gives a use on its own: what it leaves in an
\* empty table for the scopes the use is in, -1 for none.
OwnDepth(e) ==
    DepthOf(resolve_local_from([scopes |-> e.scopes, locals |-> {}], e.expr, e.name, 0).locals,
            e.expr)

\* C24: every Variable and Assign expression resolved has an entry of its
\* own in the binding table: once the pass has ended, the table has for
\* each use the depth its own resolution gave it, and no entry for a use
\* that no scope held, whatever other uses of the same name and line there
\* are.
C24_IndependentEntries ==
    resolve_result.kind # "None" =>
        \A i \in DOMAIN resolve_log :
            DepthOf(locals, resolve_log[i].expr) = OwnDepth(resolve_log[i])

(***************************************************************************)
(* Properties of the parser.                                               *)
(***************************************************************************)
\* The causes and the statements of the turns of parse's loop, in order.
FailedTurns == SelectSeq(parse_log, LAMBDA e : e.kind = "Err")

ParsedTurns == SelectSeq(parse_log, LAMBDA e : e.kind = "Ok")

CausesInOrder == [i \in 1..Len(FailedTurns) |-> FailedTurns[i].cause]

StatementsInOrder == [i \in 1..Len(ParsedTurns) |-> ParsedTurns[i].value]

\* Each turn starts at the token the turn before it stopped at.
TurnsInARow ==
    \A i \in 1..Len(parse_log) :
        parse_log[i].from = IF i = 1 THEN 1 ELSE parse_log[i - 1].synced

\* What parse returns when it returns: Ok with the statements exactly when
\* no turn failed, else a ParseError with the causes of the failed turns in
\* order; the turns went on up to Eof.
C11_ResultWhenReturned ==
    parse_result.kind \in {"Ok", "ParseError"} =>
        /\ parse_result.kind = "Ok" <=> FailedTurns = <<>>
        /\ parse_result.kind = "Ok" => parse_result.statements = StatementsInOrder
        /\ parse_result.kind = "ParseError" => parse_result.causes = CausesInOrder
        /\ TurnsInARow
        /\ peek_is_none(Parser) \/ is_type(Parser, "Eof")

\* Two turns failed and a later one parsed; parse returned the two causes.
C11_ReturnedCauses ==
    /\ parse_result.kind = "ParseError"
    /\ Len(parse_result.causes) = 2
    /\ parse_result.causes[1] # parse_result.causes[2]

\* C11: parse returns Ok(statements) iff no turn of its loop recorded an
\* error, and otherwise a ParseError whose causes are the recorded errors in
\* order, one per failed declaration, the loop having gone on after each
\* error up to Eof: every parse ends with one of the two results.
C11_ParseResult ==
    /\ parse_result.kind # "Panic"
    /\ C11_ResultWhenReturned

\* The tags of the tokens a turn started at.
TagAt(e, k) ==
    IF e.from + k - 1 > Len(parse_input) THEN "None"
    ELSE parse_input[e.from + k - 1].token_type.tag

LexemeAt(e, k) == parse_input[e.from + k - 1].lexeme

\* No ? among the tokens of the turn (a conditional is above an assignment:
\* a = b ? c : d is a Conditional of the Assign).
NoConditional(e) ==
    \A k \in e.from..(e.to - 1) : parse_input[k].token_type.tag # "QuestionMark"

\* A statement that starts with name = parses to an Assign of that name, and
\* one that starts with name . name = to a Set of that property.
C12_AssignAndSet ==
    \A i \in 1..Len(parse_log) :
        LET e == parse_log[i]
        IN  (e.kind = "Ok" /\ NoConditional(e)) =>
              /\ (TagAt(e, 1) = "Identifier" /\ TagAt(e, 2) = "Equal") =>
                    /\ e.value[1] = "Expression"
                    /\ e.value[2][1] = "Assign"
                    /\ e.value[2][2] = LexemeAt(e, 1)
              /\ (TagAt(e, 1) = "Identifier" /\ TagAt(e, 2) = "Dot"
                    /\ TagAt(e, 3) = "Identifier" /\ TagAt(e, 4) = "Equal") =>
                    /\ e.value[1] = "Expression"
                    /\ e.value[2][1] = "Set"
                    /\ e.value[2][2] = VariableExpr(LexemeAt(e, 1), parse_input[e.from].line)
                    /\ e.value[2][3] = LexemeAt(e, 3)

\* C12: a left side of = that is neither a Variable nor a Get records
\* 'Invalid assignment target.' without aborting the parse around it: the
\* statement goes on from the token after the right side and sync discards
\* no token for it; a Variable gives an Assign and a Get a Set.
C12_InvalidTargetKeepsParsing ==
    /\ C12_AssignAndSet
    /\ \A i \in 1..Len(parse_log) :
          parse_log[i].cause.message = "Invalid assignment target." =>
              /\ parse_log[i].synced = parse_log[i].to
              /\ parse_log[i].kind = "Ok"

\* The turns that start with a parameter list (fun name "(") or with an
\* argument list (name "("), closed on the same line; where the list opens
\* and closes, and how many entries it has.
OpensAt(e) ==
    CASE TagAt(e, 1) = "Fun" /\ TagAt(e, 2) = "Identifier" /\ TagAt(e, 3) = "LeftParen" ->
            e.from + 2
      [] TagAt(e, 1) = "Identifier" /\ TagAt(e, 2) = "LeftParen" -> e.from + 1
      [] OTHER -> 0

Closers(e) ==
    {k \in (OpensAt(e) + 1)..Len(parse_input) :
        /\ parse_input[k].token_type.tag = "RightParen"
        /\ parse_input[k].line = parse_input[e.from].line}

HasList(e) == OpensAt(e) # 0 /\ Closers(e) # {}

ClosesAt(e) == Min(Closers(e))

Entries(e) ==
    Cardinality({k \in (OpensAt(e) + 1)..(ClosesAt(e) - 1) :
                    parse_input[k].token_type.tag # "Comma"})

\* A list of at most 255 entries records no cause.
C13_UpToCapNoCause ==
    \A i \in 1..Len(parse_log) :
        (HasList(parse_log[i]) /\ Entries(parse_log[i]) <= 255) =>
            parse_log[i].kind = "Ok"

\* A list of more than 255 entries records the cause.
C13_PastCapCause ==
    \A i \in 1..Len(parse_log) :
        (HasList(parse_log[i]) /\ Entries(parse_log[i]) > 255) =>
            parse_log[i].cause.message
                \in {"Can't have more than 255 parameters.",
                     "Can't have more than 255 arguments."}

\* C13: a parameter or argument list of at most 255 entries records no
\* cause; a longer one records the cause and the parse of the list and of
\* its statement goes on: the declaration or call is parsed to its end and
\* sync discards no token for the report.
C13_CapReportedParsingContinues ==
    /\ C13_UpToCapNoCause
    /\ C13_PastCapCause
    /\ \A i \in 1..Len(parse_log) :
          (HasList(parse_log[i]) /\ Entries(parse_log[i]) > 255) =>
              /\ parse_log[i].to > ClosesAt(parse_log[i])
              /\ parse_log[i].synced = parse_log[i].to

\* The clauses of a turn that starts with for "(": the tokens up to the
\* first ';', up to the second ';', up to the ')' after it, and the body.
NextOf(tag, from) ==
    Min({k \in from..Len(parse_input) : parse_input[k].token_type.tag = tag})

Clause(a, b) ==
    SubSeq(parse_input, a, b) \o <<Token(TokenType("Eof"), <<>>, 0)>>

\* What the claim has the turn's statement be: its clauses, each parsed on
\* its own, put together.
ForOf(e) ==
    LET first == NextOf("Semicolon", e.from + 2)
        second == NextOf("Semicolon", first + 1)
        close == NextOf("RightParen", second + 1)
        init == IF first = e.from + 2 THEN <<>>
                ELSE <<declaration(ParserNew(Clause(e.from + 2, first))).value>>
        cond == IF second = first + 1 THEN LiteralExpr(Boolean(TRUE))
                ELSE expression(ParserNew(Clause(first + 1, second - 1))).value
        inc == IF close = second + 1 THEN <<>>
               ELSE <<expression(ParserNew(Clause(second + 1, close - 1))).value>>
        body == statement(ParserNew(Clause(close + 1, e.to - 1))).value
        while == WhileStmt(cond,
                     IF inc = <<>> THEN body
                     ELSE BlockStmt(<<body, ExpressionStmt(inc[1])>>))
    IN  IF init = <<>> THEN while ELSE BlockStmt(<<init[1], while>>)

\* C14: for (init; cond; inc) body parses to
\* Block[init, While(cond, Block[body, Expression(inc)])]: the increment
\* after the body in the loop, the initializer once before the loop in a
\* Block around it, a missing cond the literal true, a missing inc the body
\* as it is, a missing init the bare While; the tree has no For node.
C14_ForDesugars ==
    \A i \in 1..Len(parse_log) :
        (parse_log[i].kind = "Ok" /\ TagAt(parse_log[i], 1) = "For") =>
            /\ parse_log[i].value = ForOf(parse_log[i])
            /\ parse_log[i].value[1] \in {"Block", "While"}

\* A for with the three clauses has been parsed: a Block of the Var and a
\* While whose body is a Block of the Print and the increment.
C14_Witness ==
    /\ \E i \in 1..Len(parse_log) :
          /\ parse_log[i].kind = "Ok"
          /\ TagAt(parse_log[i], 1) = "For"
          /\ parse_log[i].value[1] = "Block"
          /\ parse_log[i].value[2][1][1] = "Var"
          /\ parse_log[i].value[2][2][2][1] = "Binary"
          /\ parse_log[i].value[2][2][3][1] = "Block"
          /\ Len(parse_log[i].value[2][2][3][2]) = 2
          /\ parse_log[i].value[2][2][3][2][1][1] = "Print"
          /\ parse_log[i].value[2][2][3][2][2][1] = "Expression"
    /\ parse_result.kind = "Ok"

\* The levels of the binary operators, the lowest first.
Level(tag) ==
    CASE tag = "Or" -> 1
      [] tag = "And" -> 2
      [] tag \in {"EqualEqual", "BangEqual"} -> 3
      [] tag \in {"Greater", "GreaterEqual", "Less", "LessEqual"} -> 4
      [] tag \in {"Minus", "Plus"} -> 5
      [] tag \in {"Slash", "Star"} -> 6
      [] OTHER -> 0

\* The node of an operand token and of an operator between two nodes.
Operand(t) ==
    IF t.token_type.tag = "Identifier" THEN VariableExpr(t.lexeme, t.line)
    ELSE LiteralExpr(NumberValue(f64_of(t.token_type.num)))

Node(left, tag, right) ==
    IF tag \in {"Or", "And"} THEN LogicalExpr(left, tag, right)
    ELSE BinaryExpr(left, tag, right)

\* The turn's tokens are operands with these tags between them, and a ';'.
IsChain(e, between) ==
    /\ e.to - e.from = 2 * Len(between) + 2
    /\ \A k \in 1..(Len(between) + 1) : TagAt(e, 2 * k - 1) \in {"Identifier", "Number"}
    /\ \A k \in 1..Len(between) : TagAt(e, 2 * k) = between[k]
    /\ TagAt(e, 2 * Len(between) + 2) = "Semicolon"

IsBinaryChain(e) ==
    /\ e.to - e.from = 6
    /\ IsChain(e, <<TagAt(e, 2), TagAt(e, 4)>>)
    /\ Level(TagAt(e, 2)) > 0
    /\ Level(TagAt(e, 4)) > 0

OperandAt(e, k) == Operand(parse_input[e.from + 2 * k - 2])

\* a op1 b op2 c groups to the left unless op2 is of a higher level.
BinaryChainOf(e) ==
    IF Level(TagAt(e, 4)) > Level(TagAt(e, 2))
    THEN Node(OperandAt(e, 1), TagAt(e, 2),
              Node(OperandAt(e, 2), TagAt(e, 4), OperandAt(e, 3)))
    ELSE Node(Node(OperandAt(e, 1), TagAt(e, 2), OperandAt(e, 2)),
              TagAt(e, 4), OperandAt(e, 3))

\* C15: a = b = c is Assign(a, Assign(b, c)) and a ? b : c ? d : e is
\* Conditional(a, b, Conditional(c, d, e)); a op1 b op2 c with two binary
\* operators of one level is (a op1 b) op2 c, and an operator of a higher
\* level binds tighter than one of a lower level.
C15_Associativity ==
    \A i \in 1..Len(parse_log) :
        LET e == parse_log[i]
        IN  e.kind = "Ok" =>
              /\ IsBinaryChain(e) => e.value = ExpressionStmt(BinaryChainOf(e))
              /\ IsChain(e, <<"Equal", "Equal">>) =>
                    e.value = ExpressionStmt(
                        AssignExpr(LexemeAt(e, 1), parse_input[e.from].line,
                            AssignExpr(LexemeAt(e, 3), parse_input[e.from].line,
                                OperandAt(e, 3))))
              /\ IsChain(e, <<"QuestionMark", "Colon", "QuestionMark", "Colon">>) =>
                    e.value = ExpressionStmt(
                        ConditionalExpr(OperandAt(e, 1), OperandAt(e, 2),
                            ConditionalExpr(OperandAt(e, 3), OperandAt(e, 4),
                                OperandAt(e, 5))))

\* Two different operators of one level have been parsed in a row.
C15_Witness ==
    \E i \in 1..Len(parse_log) :
        /\ parse_log[i].kind = "Ok"
        /\ IsBinaryChain(parse_log[i])
        /\ TagAt(parse_log[i], 2) = "Minus"
        /\ TagAt(parse_log[i], 4) = "Plus"

Spec == SpecScan

(***************************************************************************)
(* Properties of the parser's recovery.                                    *)
(***************************************************************************)
\* The keywords a statement starts with.
StatementKeywords == {"Class", "Fun", "Var", "For", "If", "While", "Print", "Return"}

\* The tag of the k-th token, None past the last one.
TagOf(k) == IF k > Len(parse_input) THEN "None" ELSE parse_input[k].token_type.tag

\* The token the cause of a failed turn names is one the declaration read,
\* and the declaration took no statement keyword after it.
StoppedAtCause(e) ==
    \E k \in e.from..e.to :
        /\ k \in 1..Len(parse_input)
        /\ parse_input[k].line = e.cause.line
        /\ parse_input[k].lexeme = e.cause.lexeme
        /\ \A j \in (k + 1)..(e.to - 1) : TagOf(j) \notin StatementKeywords

C25_KeywordAtOnce ==
    \E i \in 1..Len(parse_log) :
        /\ parse_log[i].kind = "Err"
        /\ parse_log[i].to = parse_log[i].synced
        /\ TagOf(parse_log[i].synced) = "Var"
        /\ parse_input[parse_log[i].synced].line = parse_log[i].cause.line
        /\ i < Len(parse_log)
        /\ parse_log[i + 1].kind = "Ok"

\* The parameter lists of a declaration: of a function, of the methods of
\* a class.
ParameterLists(value) ==
    IF value[1] = "Function" THEN {value[3]}
    ELSE IF value[1] = "Class" THEN {value[4][m][3] : m \in DOMAIN value[4]}
    ELSE {}

IdentifierLexemes ==
    {parse_input[k].lexeme : k \in {j \in DOMAIN parse_input :
                                        parse_input[j].token_type.tag = "Identifier"}}

\* The places of the parameters of a turn that starts with fun name ( :
\* the token after the '(' and each token after a comma that follows a
\* parameter.
IsFunTurn(e) ==
    /\ TagAt(e, 1) = "Fun"
    /\ TagAt(e, 2) = "Identifier"
    /\ TagAt(e, 3) = "LeftParen"

ParameterPlaces(e) ==
    {k \in 4..(Len(parse_input) - e.from + 1) :
        /\ k % 2 = 0
        /\ \A j \in 5..(k - 1) : j % 2 = 1 => TagAt(e, j) = "Comma"}

\* The stored parameters are identifiers.
C26_StoredAreIdentifiers ==
    \A i \in 1..Len(parse_log) :
        parse_log[i].kind = "Ok" =>
            \A params \in ParameterLists(parse_log[i].value) :
                \A j \in 1..Len(params) : params[j] \in IdentifierLexemes

\* A token that is no identifier at the place of a parameter fails the
\* declaration with 'Expect parameter name.'.
C26_OthersRejected ==
    \A i \in 1..Len(parse_log) :
        IsFunTurn(parse_log[i]) =>
            \A k \in ParameterPlaces(parse_log[i]) :
                \/ k = 4 /\ TagAt(parse_log[i], k) = "RightParen"
                \/ TagAt(parse_log[i], k) = "Identifier"
                \/ /\ parse_log[i].kind = "Err"
                   /\ parse_log[i].cause.message = "Expect parameter name."

\* C26: every parameter the parser stores in a function or a method is an
\* Identifier token; at the first place of the parameter list and at every
\* place after a comma, another token fails the declaration with 'Expect
\* parameter name.'.
C26_IdentifierParameters ==
    /\ C26_StoredAreIdentifiers
    /\ C26_OthersRejected

\* The first place is checked: a token there that is neither ')' nor an
\* identifier fails the declaration with 'Expect parameter name.', and the
\* first stored parameter is an identifier.
C26_FirstParameter ==
    \A i \in 1..Len(parse_log) :
        /\ (IsFunTurn(parse_log[i])
               /\ TagAt(parse_log[i], 4) \notin {"RightParen", "Identifier"}) =>
                   /\ parse_log[i].kind = "Err"
                   /\ parse_log[i].cause.message = "Expect parameter name."
        /\ parse_log[i].kind = "Ok" =>
               \A params \in ParameterLists(parse_log[i].value) :
                   params # <<>> => params[1] \in IdentifierLexemes

\* Every turn of parse's loop takes at least one token, sync moves forward
\* only, and the place of the parser stays within the tokens.
C29_Advances ==
    /\ parse_pos \in 1..(Len(parse_input) + 1)
    /\ \A i \in 1..Len(parse_log) :
          /\ parse_log[i].from < parse_log[i].to
          /\ parse_log[i].to <= parse_log[i].synced
          /\ parse_log[i].kind # "Panic" => parse_log[i].synced <= Len(parse_input) + 1

\* The tokens parse has not reached yet: what its loop counts down.
TokensLeft == Len(parse_input) + 1 - parse_pos

\* A step of parse is its end or a turn that leaves fewer tokens.
C29_Step ==
    /\ parse_result.kind = "None"
    /\ \/ parse_result'.kind # "None"
       \/ TokensLeft' < TokensLeft /\ TokensLeft' >= 0

\* C29: parse ends for every list of tokens that ends with Eof: a
\* declaration that fails has taken at least one token before sync runs, so
\* every turn of the loop starts further on than the turn before it, and
\* the loop, which counts the tokens left down, cannot go on forever.
C29_ParseTerminates == []C29_Advances /\ [][C29_Step]_vars

\* A declaration failed, sync passed over nothing, and parse returned.
C29_Witness ==
    /\ parse_result.kind = "ParseError"
    /\ TokensLeft = 1
    /\ \E i \in 1..Len(parse_log) :
          /\ parse_log[i].kind = "Err"
          /\ parse_log[i].to = parse_log[i].synced
          /\ parse_log[i].from < parse_log[i].to
          /\ i < Len(parse_log)

\* C30: the parser never reads past the end of the tokens: no turn of parse
\* unwraps a peek() or a next() that finds no token, so a list of tokens
\* that ends inside a parameter list, an argument list, a class body or an
\* expression ends with a cause and never with a panic.
C30_NeverPastTheEnd ==
    \A i \in 1..Len(parse_log) :
        /\ parse_log[i].kind \in {"Ok", "Err"}
        /\ parse_log[i].to > Len(parse_input) => parse_log[i].kind = "Err"

\* Where the parser does read past the end: in a parameter list, Eof next
\* to a comma.  Lists that end elsewhere end with a cause.
C30_OnlyAfterAComma ==
    \A i \in 1..Len(parse_log) :
        parse_log[i].kind = "Panic" =>
            /\ Len(parse_input) >= 2
            /\ TagOf(Len(parse_input) - 1) = "Comma"
            /\ \E k \in parse_log[i].from..Len(parse_input) :
                  /\ TagOf(k) = "LeftParen"
                  /\ TagOf(k - 1) = "Identifier"
                  /\ TagOf(k + 1) = "Identifier"

\* The tokens ended in an expression, the turn took the Eof and failed with
\* a cause.
C30_EofTaken ==
    \E i \in 1..Len(parse_log) :
        /\ parse_log[i].kind = "Err"
        /\ parse_log[i].to = Len(parse_input) + 1
        /\ parse_result.kind = "ParseError"

(***************************************************************************)
(* Properties of calls and of the logical operators.                       *)
(***************************************************************************)
\* The expression the program ends with.
TheLast == program[Len(CallPrelude) + 1][3][1]

IsCallProgram == TheLast[1] = "Call"

TheCallee == CHOOSE c \in Callees : c.expr = TheLast[2]

\* The place of the first argument that fails, 0 when none does, and the
\* arguments before it.
FirstFaulty ==
    IF \E j \in 1..Len(TheLast[3]) : TheLast[3][j] = Faulty
    THEN CHOOSE j \in 1..Len(TheLast[3]) :
            /\ TheLast[3][j] = Faulty
            /\ \A k \in 1..(j - 1) : TheLast[3][k] # Faulty
    ELSE 0

ArgumentsDone == IF FirstFaulty = 0 THEN Len(TheLast[3]) ELSE FirstFaulty - 1

\* The number whose digits are ds.
RECURSIVE NumberOf(_)
NumberOf(ds) ==
    IF ds = <<>> THEN 0 ELSE 10 * NumberOf(SubSeq(ds, 1, Len(ds) - 1)) + ds[Len(ds)]

\* t when the callee is evaluated first and then the arguments, each once,
\* from the left, up to the first that fails.
CallTrail ==
    NumberOf((IF TheCallee.digit = 0 THEN <<>> ELSE <<TheCallee.digit>>)
             \o [j \in 1..ArgumentsDone |-> j + 1])

CountText(n) == CASE n = 0 -> "0" [] n = 1 -> "1" [] n = 2 -> "2" [] n = 3 -> "3" [] n = 4 -> "4"

Callable == TheCallee.kind \in {"Function", "NativeFunction", "Class"}

\* The call ended with this RuntimeError: no body ran and q has no value.
CallRaised(message) ==
    /\ Raised(message)
    /\ Global("b") = NumberValue(Num(0, 1))

\* C27: a Call evaluates the callee, then every argument once from left to
\* right, and then checks the callee: 'Can only call functions and
\* classes.' for a callee that is no Function, NativeFunction or Class,
\* 'Expected N arguments but got M.' for a callable of another arity; in
\* both cases no body runs, and an argument that fails ends the evaluation
\* of the arguments after it.
C27_Call ==
    (IsCallProgram /\ interp_result.kind # "None") =>
        /\ Global("t") = NumberValue(Num(CallTrail, 1))
        /\ IF FirstFaulty # 0 THEN CallRaised("Operand must be a number.")
           ELSE IF ~Callable THEN CallRaised("Can only call functions and classes.")
           ELSE IF TheCallee.arity # Len(TheLast[3])
           THEN CallRaised("Expected " \o CountText(TheCallee.arity) \o " arguments but got "
                           \o CountText(Len(TheLast[3])) \o ".")
           ELSE /\ interp_result.kind = "Ok"
                /\ MapHas(heap[GlobalEnv].values, "q")
                /\ Global("b") = NumberValue(Num(IF TheCallee.sets THEN 1 ELSE 0, 1))

\* g's arity is 1: (t = t * 10 + 1 ? g : h)(t = t * 10 + 2, t = t * 10 + 3)
\* leaves 123 in t and fails with the arity message, and g's body has not
\* run.
C27_Witness ==
    /\ IsCallProgram
    /\ TheCallee.digit = 1 /\ TheCallee.arity = 1
    /\ Len(TheLast[3]) = 2 /\ FirstFaulty = 0
    /\ Global("t") = NumberValue(Num(123, 1))
    /\ CallRaised("Expected 1 arguments but got 2.")

\* nil(t = t * 10 + 2) evaluates the argument before it fails.
C27_NotCallable ==
    /\ IsCallProgram
    /\ TheCallee.kind = "Nil" /\ Len(TheLast[3]) = 1
    /\ Global("t") = NumberValue(Num(2, 1))
    /\ CallRaised("Can only call functions and classes.")

\* h(t = t * 10 + 2, t = t * 10 + 3) runs h's body after both arguments.
C27_BodyRuns ==
    /\ IsCallProgram
    /\ TheCallee.expr = VariableExpr("h", 1)
    /\ interp_result.kind = "Ok"
    /\ Global("t") = NumberValue(Num(23, 1))
    /\ Global("b") = NumberValue(Num(1, 1))

\* h(t = t * 10 + 2, -nil, t = t * 10 + 4): the third argument is not
\* evaluated.
C27_ArgumentFails ==
    /\ IsCallProgram
    /\ TheCallee.expr = VariableExpr("h", 1)
    /\ Len(TheLast[3]) = 3 /\ FirstFaulty = 2 /\ TheLast[3][3] # Faulty
    /\ Global("t") = NumberValue(Num(2, 1))
    /\ interp_result.kind = "RuntimeError"

IsLogicalProgram == TheLast[1] = "Logical"

\* The operands of the logical expression in the table, and their values.
FirstOperand == CHOOSE o \in Values \cup {AppendDigit(1)} : o.expr = TheLast[2]

SecondOperand == CHOOSE o \in LogicalRights : o.expr = TheLast[4]

FirstValue ==
    IF FirstOperand.digit = 0 THEN FirstOperand.value
    ELSE NumberValue(Num(FirstOperand.digit, 1))

SecondValue ==
    IF SecondOperand.digit = 0 THEN SecondOperand.value
    ELSE NumberValue(Num(10 * FirstOperand.digit + SecondOperand.digit, 1))

\* false and nil are falsey, every other value is truthy.
Falsey(value) == value = Nil \/ value = Boolean(FALSE)

\* or with a truthy first operand, and with a falsey one.
Skips ==
    \/ TheLast[3] = "Or" /\ ~Falsey(FirstValue)
    \/ TheLast[3] = "And" /\ Falsey(FirstValue)

\* q is the value: the same reference kind, or the same value.
IsValue(q, value) ==
    IF value.k \in {"Function", "NativeFunction", "Class", "Instance"} THEN q.k = value.k
    ELSE q = value

\* C28: a or b is the value of a when a is truthy and a and b is the value
\* of a when a is falsey (false or nil), b not being evaluated; otherwise
\* both are the value of b, which is evaluated once.  The values are the
\* operands' own and no Booleans made of them.
C28_Logical ==
    (IsLogicalProgram /\ interp_result.kind # "None") =>
        IF Skips
        THEN /\ interp_result.kind = "Ok"
             /\ MapHas(heap[GlobalEnv].values, "q")
             /\ IsValue(Global("q"), FirstValue)
             /\ Global("t") = NumberValue(Num(FirstOperand.digit, 1))
        ELSE IF SecondOperand.expr = Faulty
        THEN /\ Raised("Operand must be a number.")
             /\ Global("t") = NumberValue(Num(FirstOperand.digit, 1))
        ELSE /\ interp_result.kind = "Ok"
             /\ MapHas(heap[GlobalEnv].values, "q")
             /\ IsValue(Global("q"), SecondValue)
             /\ Global("t") =
                    NumberValue(Num(IF SecondOperand.digit = 0 THEN FirstOperand.digit
                                    ELSE 10 * FirstOperand.digit + SecondOperand.digit, 1))

\* "s" or (t = t * 10 + 2) is "s" and t is still 0.
C28_Witness ==
    /\ IsLogicalProgram /\ TheLast[3] = "Or"
    /\ FirstValue = StringValue(<<"s">>) /\ SecondOperand.digit = 2
    /\ interp_result.kind = "Ok"
    /\ Global("q") = StringValue(<<"s">>)
    /\ Global("t") = NumberValue(Num(0, 1))

\* nil and -nil is nil: the operand that would fail is not evaluated.
C28_AndSkips ==
    /\ IsLogicalProgram /\ TheLast[3] = "And"
    /\ FirstValue = Nil /\ SecondOperand.expr = Faulty
    /\ interp_result.kind = "Ok"
    /\ MapHas(heap[GlobalEnv].values, "q")
    /\ Global("q") = Nil

\* (t = t * 10 + 1) and (t = t * 10 + 2) is 12: both evaluated, once each.
C28_Both ==
    /\ IsLogicalProgram /\ TheLast[3] = "And"
    /\ FirstOperand.digit = 1 /\ SecondOperand.digit = 2
    /\ Global("q") = NumberValue(Num(12, 1))
    /\ Global("t") = NumberValue(Num(12, 1))

\* 0 or 2 is 0, and nil or 0.5 is 0.5.
C28_ZeroIsTruthy ==
    /\ IsLogicalProgram /\ TheLast[3] = "Or"
    /\ FirstValue = NumberValue(Num(0, 1)) /\ SecondValue = NumberValue(Num(2, 1))
    /\ interp_result.kind = "Ok"
    /\ Global("q") = NumberValue(Num(0, 1))

====
